---- MODULE Spec2Model ----
(***************************************************************************)
(* A model of the Zontax parser (src/src/index.ts): admission control, the *)
(* audit of the expression tree, the definition builder, the merge engine  *)
(* and the asynchronous parse(...sources) call that ties them together.    *)
(*                                                                         *)
(* Representation.                                                         *)
(*  - A JS string is a sequence of atoms.  An atom is one punctuation      *)
(*    character, or a run of letters, or a run of digits.  Operations on   *)
(*    characters (startsWith, split, the regular expressions of admission) *)
(*    are modelled on atoms.                                               *)
(*  - A JS value is a record tagged by k.  An object is an association     *)
(*    list (insertion order is kept, as in JS); an array is a sequence.    *)
(*  - An expression tree node is a record with the ESTree field names.     *)
(***************************************************************************)
EXTENDS Integers, Sequences, FiniteSets, TLC

(***************************************************************************)
(* Strings                                                                 *)
(***************************************************************************)
W(a) == <<a>>

RECURSIVE Concat(_)
Concat(ss) == IF ss = <<>> THEN <<>> ELSE Head(ss) \o Concat(Tail(ss))

RECURSIVE Join(_, _)
\* Array.prototype.join: the strings of ss separated by the string sep
Join(ss, sep) ==
  IF ss = <<>> THEN <<>>
  ELSE IF Len(ss) = 1 THEN ss[1]
  ELSE ss[1] \o sep \o Join(Tail(ss), sep)

RECURSIVE Split(_, _)
\* String.prototype.split on a one-atom separator
Split(s, sep) ==
  IF \A i \in 1..Len(s) : s[i] # sep THEN <<s>>
  ELSE LET i == CHOOSE j \in 1..Len(s) : s[j] = sep /\ \A h \in 1..(j-1) : s[h] # sep
       IN <<SubSeq(s, 1, i-1)>> \o Split(SubSeq(s, i+1, Len(s)), sep)

Includes(s, a) == \E i \in 1..Len(s) : s[i] = a

StartsWith(s, p) == Len(p) <= Len(s) /\ SubSeq(s, 1, Len(p)) = p

EndsWith(s, p) == Len(p) <= Len(s) /\ SubSeq(s, Len(s) - Len(p) + 1, Len(s)) = p

(***************************************************************************)
(* JS values                                                               *)
(***************************************************************************)
Undef == [k |-> "undefined"]
Null == [k |-> "null"]
NaNv == [k |-> "NaN"]
Infv == [k |-> "Infinity"]
Num(n) == [k |-> "number", n |-> n]
Str(s) == [k |-> "string", s |-> s]
Bool(b) == [k |-> "boolean", b |-> b]
RegExpV == [k |-> "regexp"]
BigIntV(n) == [k |-> "bigint", n |-> n]
Arr(e) == [k |-> "array", e |-> e]
Obj(e) == [k |-> "object", e |-> e]
EmptyObj == Obj(<<>>)

IsObj(v) == v.k = "object"

\* ToBoolean
Truthy(v) ==
  CASE v.k = "undefined" -> FALSE
    [] v.k = "null" -> FALSE
    [] v.k = "NaN" -> FALSE
    [] v.k = "boolean" -> v.b
    [] v.k = "number" -> v.n # 0
    [] v.k = "string" -> v.s # <<>>
    [] OTHER -> TRUE

HasKey(o, key) == IsObj(o) /\ \E i \in 1..Len(o.e) : o.e[i].key = key

\* o[key]; undefined when o has no such own property (or is a primitive)
Get(o, key) ==
  IF HasKey(o, key)
  THEN o.e[CHOOSE i \in 1..Len(o.e) : o.e[i].key = key].val
  ELSE Undef

\* o[key] = v: an existing key keeps its place, a new key is appended
Put(o, key, v) ==
  IF HasKey(o, key)
  THEN Obj([i \in 1..Len(o.e) |->
              IF o.e[i].key = key THEN [key |-> key, val |-> v] ELSE o.e[i]])
  ELSE Obj(Append(o.e, [key |-> key, val |-> v]))

Keys(o) == [i \in 1..Len(o.e) |-> o.e[i].key]

\* A reference to a heap object, and JS === on heap values: objects and
\* arrays are equal when they are the same object, NaN equals nothing
Ref(a) == [k |-> "ref", a |-> a]
IsRef(v) == v.k = "ref"
StrictEq(a, b) == IF a.k = "NaN" THEN FALSE ELSE a = b

\* An object as a function of its keys: equality up to key order
RECURSIVE Canon(_)
Canon(v) ==
  CASE v.k = "object" ->
         [k |-> "object",
          m |-> [key \in {v.e[i].key : i \in 1..Len(v.e)} |-> Canon(Get(v, key))]]
    [] v.k = "array" -> [k |-> "array", e |-> [i \in 1..Len(v.e) |-> Canon(v.e[i])]]
    [] OTHER -> v

(***************************************************************************)
(* Errors                                                                  *)
(***************************************************************************)
ZErr(msg) == [name |-> "ZontaxMergeError", msg |-> msg]
TypeErr == [name |-> "TypeError", msg |-> "TypeError"]
Ok(v) == [ok |-> TRUE, val |-> v]
Throw(e) == [ok |-> FALSE, err |-> e]

(***************************************************************************)
(* Expression trees (the ESTree nodes acorn.parse returns)                 *)
(***************************************************************************)
\* a property read that yields undefined (or an array hole, which is null)
NoNode == [type |-> "<undefined>"]

Id(name) == [type |-> "Identifier", name |-> name]
Lit(v) == [type |-> "Literal", value |-> v]
Member(o, p) ==
  [type |-> "MemberExpression", object |-> o, property |-> p, computed |-> FALSE]
Computed(o, p) ==
  [type |-> "MemberExpression", object |-> o, property |-> p, computed |-> TRUE]
Call(c, args) == [type |-> "CallExpression", callee |-> c, arguments |-> args]
Prop(key, v) == [type |-> "Property", key |-> key, value |-> v, computed |-> FALSE]
ObjE(props) == [type |-> "ObjectExpression", properties |-> props]
ArrE(elems) == [type |-> "ArrayExpression", elements |-> elems]
Unary(op, arg) == [type |-> "UnaryExpression", operator |-> op, argument |-> arg]
Binary(op, l, r) ==
  [type |-> "BinaryExpression", operator |-> op, left |-> l, right |-> r]
Assign(l, r) ==
  [type |-> "AssignmentExpression", operator |-> "=", left |-> l, right |-> r]
This == [type |-> "ThisExpression"]
Chain(e) == [type |-> "ChainExpression", expression |-> e]
Stmt(e) == [type |-> "ExpressionStatement", expression |-> e]
EmptyStmt == [type |-> "EmptyStatement"]
Program(body) == [type |-> "Program", body |-> body]

\* the sentinel and a call of one of its methods
Z == Id(W("Z"))
M(o, name, args) == Call(Member(o, Id(name)), args)

\* node[f], undefined when the node has no such property
Field(node, f) == IF f \in DOMAIN node THEN node[f] ELSE NoNode

IsNode(n) == n # NoNode

\* The properties of a node that hold nodes, in property order, the items of
\* an array property in their order (type, start, end and loc are skipped by
\* both walks of the audit; the other properties hold strings or booleans).
Children(n) ==
  CASE n.type = "Program" -> n.body
    [] n.type = "ExpressionStatement" -> <<n.expression>>
    [] n.type = "CallExpression" -> <<n.callee>> \o n.arguments
    [] n.type = "MemberExpression" -> <<n.object, n.property>>
    [] n.type = "ObjectExpression" -> n.properties
    [] n.type = "Property" -> <<n.key, n.value>>
    [] n.type = "ArrayExpression" -> n.elements
    [] n.type = "UnaryExpression" -> <<n.argument>>
    [] n.type \in {"BinaryExpression", "AssignmentExpression"} -> <<n.left, n.right>>
    [] n.type = "ChainExpression" -> <<n.expression>>
    [] OTHER -> <<>>

\* every node below n (n included), at any position
RECURSIVE Nodes(_)
Nodes(n) ==
  IF ~IsNode(n) THEN {}
  ELSE {n} \cup UNION { Nodes(Children(n)[i]) : i \in 1..Len(Children(n)) }

(***************************************************************************)
(* The source text of a tree: the text acorn.parse reads the tree from.    *)
(***************************************************************************)
NeedsParens(n) ==
  n.type \in {"BinaryExpression", "AssignmentExpression", "UnaryExpression",
              "ObjectExpression"}

RECURSIVE Show(_)
ShowList(ns) == Join([i \in 1..Len(ns) |-> Show(ns[i])], <<",">>)

Show(n) ==
  CASE n.type = "Identifier" -> n.name
    [] n.type = "Literal" ->
         (CASE n.value.k = "string" -> <<"\"">> \o n.value.s \o <<"\"">>
           [] n.value.k = "number" -> <<ToString(n.value.n)>>
           [] n.value.k = "boolean" -> IF n.value.b THEN W("true") ELSE W("false")
           [] n.value.k = "null" -> W("null")
           [] n.value.k = "regexp" -> <<"/", "x", "/">>
           [] n.value.k = "bigint" -> <<ToString(n.value.n), "n">>)
    [] n.type = "MemberExpression" ->
         (IF NeedsParens(n.object) THEN <<"(">> \o Show(n.object) \o <<")">>
          ELSE Show(n.object))
         \o (IF n.computed THEN <<"[">> \o Show(n.property) \o <<"]">>
             ELSE <<".">> \o Show(n.property))
    [] n.type = "CallExpression" ->
         Show(n.callee) \o <<"(">> \o ShowList(n.arguments) \o <<")">>
    [] n.type = "Property" -> Show(n.key) \o <<":">> \o Show(n.value)
    [] n.type = "ObjectExpression" -> <<"{">> \o ShowList(n.properties) \o <<"}">>
    [] n.type = "ArrayExpression" -> <<"[">> \o ShowList(n.elements) \o <<"]">>
    [] n.type = "UnaryExpression" -> <<n.operator>> \o Show(n.argument)
    [] n.type \in {"BinaryExpression", "AssignmentExpression"} ->
         Show(n.left) \o <<n.operator>> \o Show(n.right)
    [] n.type = "ThisExpression" -> W("this")
    [] n.type = "ChainExpression" ->
         Show(n.expression.object) \o <<"?", ".">> \o Show(n.expression.property)
    [] n.type = "ExpressionStatement" ->
         LET t == Show(n.expression)
         IN IF t # <<>> /\ t[1] = "{" THEN <<"(">> \o t \o <<")">> ELSE t
    [] n.type = "EmptyStatement" -> <<>>
    [] n.type = "Program" -> Join([i \in 1..Len(n.body) |-> Show(n.body[i])], <<";">>)
    [] n.type = "<undefined>" -> <<>>

SourceText(ast) == Show(ast)

(***************************************************************************)
(* Admission control (validateInput and what it calls), on atoms           *)
(***************************************************************************)
Whitespace == {" ", "\n"}
\* ("backtick" names the character U+0060)
Punctuation ==
  {".", ",", ":", ";", "(", ")", "[", "]", "{", "}", "\"", "'", "backtick", "-", "+", "*",
   "/", "=", "!", "<", ">", "&", "|", "?", "$", "#", "@", "\\", "^", "%", "~"}
DigitRuns == {ToString(n) : n \in 0..200}

IsDigits(a) == a \in DigitRuns
\* a run of [A-Za-z_][A-Za-z0-9_]*
IsWord(a) == a \notin Punctuation /\ a \notin Whitespace /\ a \notin DigitRuns
\* [a-zA-Z_$] and [a-zA-Z0-9_$]
IdentStart(a) == IsWord(a) \/ a = "$"
IdentPart(a) == IsWord(a) \/ a = "$" \/ IsDigits(a)
\* \w
WordChar(a) == IsWord(a) \/ IsDigits(a)

At(s, i) == IF i \in 1..Len(s) THEN s[i] ELSE ""

\* the first index at or after i that holds no identifier character
RECURSIVE IdentEnd(_, _)
IdentEnd(s, i) == IF i <= Len(s) /\ IdentPart(s[i]) THEN IdentEnd(s, i + 1) ELSE i

\* the first index at or after i that holds a, or 0
RECURSIVE IndexFrom(_, _, _)
IndexFrom(s, a, i) ==
  IF i > Len(s) THEN 0 ELSE IF s[i] = a THEN i ELSE IndexFrom(s, a, i + 1)

\* the first index at or after i where a is followed by b, or 0
RECURSIVE PairFrom(_, _, _, _)
PairFrom(s, a, b, i) ==
  IF i >= Len(s) THEN 0
  ELSE IF s[i] = a /\ s[i+1] = b THEN i ELSE PairFrom(s, a, b, i + 1)

RECURSIVE SkipSpace(_, _)
SkipSpace(s, i) == IF i <= Len(s) /\ s[i] \in Whitespace THEN SkipSpace(s, i + 1) ELSE i

\* source.replace(/\/\*[\s\S]*?\*\//g, '')
RECURSIVE StripBlockComments(_)
StripBlockComments(s) ==
  LET i == PairFrom(s, "/", "*", 1)
      j == IF i = 0 THEN 0 ELSE PairFrom(s, "*", "/", i + 2)
  IN IF i = 0 \/ j = 0 THEN s
     ELSE SubSeq(s, 1, i - 1) \o StripBlockComments(SubSeq(s, j + 2, Len(s)))

\* .replace(/\/\/.*$/gm, '')
RECURSIVE StripLineComments(_)
StripLineComments(s) ==
  LET i == PairFrom(s, "/", "/", 1)
      n == IF i = 0 THEN 0 ELSE IndexFrom(s, "\n", i)
  IN IF i = 0 THEN s
     ELSE IF n = 0 THEN SubSeq(s, 1, i - 1)
     ELSE SubSeq(s, 1, i - 1) \o StripLineComments(SubSeq(s, n, Len(s)))

RECURSIVE Trim(_)
Trim(s) ==
  IF s = <<>> THEN s
  ELSE IF s[1] \in Whitespace THEN Trim(Tail(s))
  ELSE IF s[Len(s)] \in Whitespace THEN Trim(SubSeq(s, 1, Len(s) - 1))
  ELSE s

\* \.[a-zA-Z_$][a-zA-Z0-9_$]*\([^)]*\) at index i: the index after it, or 0
CallSegment(s, i) ==
  IF At(s, i) = "." /\ i + 1 <= Len(s) /\ IdentStart(s[i+1])
  THEN LET j == IdentEnd(s, i + 1)
           c == IF At(s, j) = "(" THEN IndexFrom(s, ")", j + 1) ELSE 0
       IN IF c = 0 THEN 0 ELSE c + 1
  ELSE 0

RECURSIVE CallSegments(_, _)
CallSegments(s, i) ==
  IF i = Len(s) + 1 THEN TRUE
  ELSE LET n == CallSegment(s, i) IN n # 0 /\ CallSegments(s, n)

\* /^Z\.[a-zA-Z_$][a-zA-Z0-9_$]*\(\)/  (no end anchor)
BasicChainPattern(s) ==
  /\ At(s, 1) = "Z" /\ At(s, 2) = "." /\ Len(s) >= 3 /\ IdentStart(s[3])
  /\ LET j == IdentEnd(s, 3) IN At(s, j) = "(" /\ At(s, j + 1) = ")"

\* /^Z\.[a-zA-Z_$][a-zA-Z0-9_$]*\([^)]*\)(\.[a-zA-Z_$][a-zA-Z0-9_$]*\([^)]*\))*$/
FullChainPattern(s) ==
  /\ At(s, 1) = "Z"
  /\ LET n == CallSegment(s, 2) IN n # 0 /\ CallSegments(s, n)

Enclosed(s, open, close) == Len(s) >= 2 /\ s[1] = open /\ s[Len(s)] = close

\* /^"[^"]*"$/ and /^'[^']*'$/
QuotedPattern(s, q) ==
  Enclosed(s, q, q) /\ \A i \in 2..(Len(s) - 1) : s[i] # q

\* /^-?\d+(\.\d+)?$/
NumberPattern(s) ==
  LET t == IF At(s, 1) = "-" THEN Tail(s) ELSE s
  IN \/ Len(t) = 1 /\ IsDigits(t[1])
     \/ Len(t) = 3 /\ IsDigits(t[1]) /\ t[2] = "." /\ IsDigits(t[3])

allowedPatterns(s) ==
  \/ BasicChainPattern(s)
  \/ FullChainPattern(s)
  \/ Enclosed(s, "{", "}")
  \/ Enclosed(s, "[", "]")
  \/ QuotedPattern(s, "\"")
  \/ QuotedPattern(s, "'")
  \/ NumberPattern(s)
  \/ s \in {W("true"), W("false")}
  \/ s \in {W("null"), W("undefined")}
  \/ s \in {W("NaN"), W("Infinity")}

Closer(open) == CASE open = "(" -> ")" [] open = "[" -> "]" [] open = "{" -> "}" [] OTHER -> ""

\* the index of the closing quote of the literal opened at i - 1 (the while loop
\* that skips a string literal), Len(s) + 1 or more when it is not closed
RECURSIVE SkipString(_, _, _)
SkipString(s, i, quote) ==
  IF i <= Len(s) /\ s[i] # quote
  THEN SkipString(s, (IF s[i] = "\\" THEN i + 1 ELSE i) + 1, quote)
  ELSE i

RECURSIVE hasBalancedDelimitersFrom(_, _, _)
hasBalancedDelimitersFrom(s, i, stack) ==
  IF i > Len(s) THEN stack = <<>>
  ELSE IF s[i] \in {"\"", "'"}
       THEN hasBalancedDelimitersFrom(s, SkipString(s, i + 1, s[i]) + 1, stack)
  ELSE IF s[i] \in {"(", "[", "{"}
       THEN hasBalancedDelimitersFrom(s, i + 1, <<s[i]>> \o stack)
  ELSE IF s[i] \in {")", "]", "}"}
       THEN /\ stack # <<>>
            /\ Closer(Head(stack)) = s[i]
            /\ hasBalancedDelimitersFrom(s, i + 1, Tail(stack))
  ELSE hasBalancedDelimitersFrom(s, i + 1, stack)

hasBalancedDelimiters(s) == hasBalancedDelimitersFrom(s, 1, <<>>)

Max(a, b) == IF a >= b THEN a ELSE b

RECURSIVE calculateDelimiterDepthFrom(_, _, _, _)
calculateDelimiterDepthFrom(s, i, depth, maxDepth) ==
  IF i > Len(s) THEN maxDepth
  ELSE IF s[i] \in {"\"", "'"}
       THEN calculateDelimiterDepthFrom(s, SkipString(s, i + 1, s[i]) + 1, depth, maxDepth)
  ELSE IF s[i] \in {"(", "[", "{"}
       THEN calculateDelimiterDepthFrom(s, i + 1, depth + 1, Max(maxDepth, depth + 1))
  ELSE IF s[i] \in {")", "]", "}"}
       THEN calculateDelimiterDepthFrom(s, i + 1, depth - 1, maxDepth)
  ELSE calculateDelimiterDepthFrom(s, i + 1, depth, maxDepth)

calculateDelimiterDepth(s) == calculateDelimiterDepthFrom(s, 1, 0, 0)

\* /^[a-zA-Z0-9_$\s\[\]{}().,:"'`\-+*/=!<>&|?;]+$/
AllowedChar(a) ==
  \/ IsWord(a) \/ IsDigits(a) \/ a \in Whitespace
  \/ a \in {"$", "[", "]", "{", "}", "(", ")", ".", ",", ":", "\"", "'", "backtick", "-", "+",
            "*", "/", "=", "!", "<", ">", "&", "|", "?", ";"}

\* source.split(/\s+/).filter(token => token.length > 0).length
TokenCount(s) ==
  Cardinality({i \in 1..Len(s) : s[i] \notin Whitespace /\ (i = 1 \/ s[i-1] \in Whitespace)})

maxNestingDepth == 20
MaxTokens == 1000

validateComplexStructure(s) ==
  /\ hasBalancedDelimiters(s)
  /\ s # <<>> /\ \A i \in 1..Len(s) : AllowedChar(s[i])
  /\ calculateDelimiterDepth(s) <= maxNestingDepth
  /\ TokenCount(s) <= MaxTokens

validateInputStructure(source) ==
  LET cleanSource == Trim(StripLineComments(StripBlockComments(source)))
  IN /\ cleanSource # <<>>
     /\ (allowedPatterns(cleanSource) \/ validateComplexStructure(cleanSource))

\* the names of criticalPatterns that are followed by \s*\( and by \s*\.
CriticalCalls ==
  {"eval", "setTimeout", "setInterval", "import", "require", "XMLHttpRequest", "fetch",
   "webSocket", "Buffer"}
CriticalObjects ==
  {"process", "global", "window", "document", "location", "navigator", "history",
   "worker", "module", "exports", "fs", "path", "os", "child_process", "cluster", "url",
   "http", "https", "net", "tls", "dgram", "stream", "events", "util", "crypto", "zlib",
   "querystring", "string_decoder", "v8", "vm", "worker_threads", "async_hooks",
   "perf_hooks"}
CriticalWords == {"__dirname", "__filename"}

\* \b before index i
BoundaryBefore(s, i) == i = 1 \/ ~WordChar(s[i-1])

criticalPatterns(s) ==
  \E i \in 1..Len(s) :
    /\ BoundaryBefore(s, i)
    /\ \/ s[i] \in CriticalCalls /\ At(s, SkipSpace(s, i + 1)) = "("
       \/ s[i] \in CriticalObjects /\ At(s, SkipSpace(s, i + 1)) = "."
       \/ s[i] \in CriticalWords /\ ~WordChar(At(s, i + 1))
       \/ /\ s[i] = "new" /\ At(s, i + 1) \in Whitespace
          /\ At(s, SkipSpace(s, i + 1)) = "Function"
          /\ At(s, SkipSpace(s, SkipSpace(s, i + 1) + 1)) = "("

DefaultMaxInputLength == 10000

\* validateInput: the error it throws, or none.  A text has at least as many
\* characters as atoms.
validateInput(source) ==
  IF Len(source) > DefaultMaxInputLength THEN Throw(ZErr("Input length exceeds maximum"))
  ELSE IF ~validateInputStructure(source)
       THEN Throw(ZErr("Input does not match expected Zontax schema structure"))
  ELSE IF criticalPatterns(source) THEN Throw(ZErr("Input contains forbidden patterns"))
  ELSE Ok(Undef)

(***************************************************************************)
(* The audit of the parsed tree (validateASTStructure and what it calls)   *)
(***************************************************************************)
MaxNodeCount == 1000
MaxAstDepth == 50

\* a regular-expression literal carries two more objects (value and regex)
ExtraObjects(n) == IF n.type = "Literal" /\ n.value.k = "regexp" THEN 2 ELSE 0

RECURSIVE calculateASTComplexity(_, _)
RECURSIVE ComplexityOfItems(_, _, _)
\* the node count and the greatest depth of the items of ns, all at depth d,
\* added to acc
ComplexityOfItems(ns, d, acc) ==
  IF ns = <<>> THEN acc
  ELSE LET c == calculateASTComplexity(Head(ns), d)
       IN ComplexityOfItems(Tail(ns), d,
            [nodeCount |-> acc.nodeCount + c.nodeCount, depth |-> Max(acc.depth, c.depth)])

calculateASTComplexity(node, depth) ==
  IF ~IsNode(node) THEN [nodeCount |-> 0, depth |-> depth]
  ELSE ComplexityOfItems(Children(node), depth + 1,
         [nodeCount |-> 1 + ExtraObjects(node),
          depth |-> IF ExtraObjects(node) > 0 THEN depth + 1 ELSE depth])

\* the whitelist of validateASTNodes
AuditNodeTypes ==
  {"Program", "ExpressionStatement", "CallExpression", "MemberExpression", "Identifier",
   "Literal", "ObjectExpression", "Property", "ArrayExpression", "UnaryExpression",
   "BinaryExpression", "LogicalExpression", "ConditionalExpression",
   "AssignmentExpression", "UpdateExpression", "SequenceExpression", "ThisExpression",
   "NewExpression", "FunctionExpression", "ArrowFunctionExpression", "BlockStatement",
   "ReturnStatement", "IfStatement", "WhileStatement", "ForStatement", "DoWhileStatement",
   "BreakStatement", "ContinueStatement", "ThrowStatement", "TryStatement", "CatchClause",
   "SwitchStatement", "SwitchCase", "VariableDeclaration", "VariableDeclarator",
   "FunctionDeclaration", "RestElement", "SpreadElement", "ObjectPattern", "ArrayPattern",
   "AssignmentPattern", "ClassDeclaration", "ClassExpression", "MethodDefinition", "Super",
   "MetaProperty", "ImportDeclaration", "ImportSpecifier", "ImportDefaultSpecifier",
   "ImportNamespaceSpecifier", "ExportNamedDeclaration", "ExportSpecifier",
   "ExportDefaultDeclaration", "ExportAllDeclaration", "TemplateLiteral", "TemplateElement",
   "TaggedTemplateExpression", "YieldExpression", "AwaitExpression"}

\* validateASTNodes: the type of the first forbidden node of the walk, or ""
RECURSIVE validateASTNodes(_)
RECURSIVE FirstForbidden(_)
FirstForbidden(ns) ==
  IF ns = <<>> THEN ""
  ELSE LET f == validateASTNodes(Head(ns)) IN IF f # "" THEN f ELSE FirstForbidden(Tail(ns))

validateASTNodes(node) ==
  IF ~IsNode(node) THEN ""
  ELSE IF node.type \notin AuditNodeTypes THEN node.type
  ELSE FirstForbidden(Children(node))

ZErrT(msg, t) == [name |-> "ZontaxMergeError", msg |-> msg, type |-> t]

\* validateASTStructure: the error it throws, or none
validateASTStructure(ast) ==
  IF ~IsNode(ast) THEN Throw(ZErr("Invalid AST structure"))
  ELSE IF ast.type # "Program" THEN Throw(ZErr("Invalid AST root type"))
  ELSE LET complexity == calculateASTComplexity(ast, 0)
           forbidden == validateASTNodes(ast)
       IN IF complexity.nodeCount > MaxNodeCount
          THEN Throw(ZErr("AST too complex - node count exceeds limit"))
          ELSE IF complexity.depth > MaxAstDepth
          THEN Throw(ZErr("AST too complex - depth exceeds limit"))
          ELSE IF forbidden # "" THEN Throw(ZErrT("Forbidden AST node type", forbidden))
          ELSE Ok(ast)

\* A source: its text, and the tree acorn.parse gives for it (no tree when the
\* text is not a program: acorn throws a SyntaxError).
Src(ast) == [text |-> SourceText(ast), ast |-> ast]
Unparsable(text) == [text |-> text, ast |-> NoNode]

\* parseWithTimeout: what its promise settles with.  tooLong is the outcome of
\* the test Date.now() - startTime > this.parseTimeout * 0.8 after the parse.
parseWithTimeout(source, tooLong) ==
  IF ~IsNode(source.ast) THEN Throw(ZErr("Invalid syntax in input"))
  ELSE IF tooLong THEN Throw(ZErr("Parse operation took too long"))
  ELSE validateASTStructure(source.ast)

\* the timers of one call of parseWithTimeout: the executor creates the timeout
\* timer and, where process.memoryUsage exists (node), the interval of the
\* memory check
TimersCreated(node) == {"timeout"} \cup (IF node THEN {"memoryCheck"} ELSE {})
clearTimeout(active) == active \ {"timeout"}
clearInterval(active) == active \ {"memoryCheck"}
\* a path that would clear the timeout timer and leave the interval running
ClearTimeoutOnly(active) == active \ {"timeout"}
\* clearTimeout(timeout); if (memoryCheck) clearInterval(memoryCheck);
ClearTimers(active) == clearInterval(clearTimeout(active))
\* the executor on each of its paths: the timers left active when it returns
\* and the number of its calls of resolve and reject
parseWithTimeoutTimers(source, tooLong, node) ==
  IF ~IsNode(source.ast)
  THEN [active |-> ClearTimers(TimersCreated(node)), settles |-> 1]
  ELSE IF tooLong
       THEN [active |-> ClearTimers(TimersCreated(node)), settles |-> 1]
  ELSE IF ~validateASTStructure(source.ast).ok
       THEN [active |-> ClearTimers(TimersCreated(node)), settles |-> 1]
  ELSE [active |-> ClearTimers(TimersCreated(node)), settles |-> 1]

(***************************************************************************)
(* The parser instance (this) and its extension registry                   *)
(***************************************************************************)
\* A path matcher of allowedOnPath is a string or a RegExp object.  The model's
\* regular expressions are a literal body with optional ^ and $ anchors.
RegExpM(anchorStart, body, anchorEnd, flags) ==
  [k |-> "regexp", anchorStart |-> anchorStart, body |-> body, anchorEnd |-> anchorEnd,
   flags |-> flags, lastIndex |-> 0]

\* An extension: allowedOnPath is undefined or an array of matchers.
Ext(name, allowedOnPath) == [name |-> name, allowedOnPath |-> allowedOnPath]

\* RegExp.prototype.source: the anchors and the body, whose dots are escaped
EscapedBody(body) ==
  LET RECURSIVE escaped(_, _)
      escaped(lo, hi) ==
        IF lo > hi THEN <<>>
        ELSE IF lo = hi THEN (IF body[lo] = "." THEN <<"\\", ".">> ELSE <<body[lo]>>)
        ELSE escaped(lo, (lo + hi) \div 2) \o escaped((lo + hi) \div 2 + 1, hi)
  IN escaped(1, Len(body))
RegExpSource(pattern) ==
  (IF pattern.anchorStart THEN <<"^">> ELSE <<>>)
  \o EscapedBody(pattern.body)
  \o (IF pattern.anchorEnd THEN <<"$">> ELSE <<>>)

\* String.prototype.includes
IncludesText(s, p) == \E i \in 0..(Len(s) - Len(p)) : SubSeq(s, i + 1, i + Len(p)) = p
\* (source.match(/[...]/g) || []).length for a class of single characters
MatchCount(source, class) == Cardinality({i \in 1..Len(source) : source[i] \in class})
\* source.length: a name or a run of digits counts its characters
NameLengths == [user |-> 4, name |-> 4, profile |-> 7, bio |-> 3]
SourceLength(source) ==
  LET chars(a) == IF a \in DOMAIN NameLengths THEN NameLengths[a] ELSE 1
      RECURSIVE sum(_, _)
      sum(lo, hi) ==
        IF lo > hi THEN 0
        ELSE IF lo = hi THEN chars(source[lo])
        ELSE sum(lo, (lo + hi) \div 2) + sum((lo + hi) \div 2 + 1, hi)
  IN sum(1, Len(source))

\* redosPatterns.some(p => p.test(source)) on the sources of the model, which
\* hold names, digits, escaped dots, hyphens and the two anchors: the shapes
\* with a group, a character class or a second ^ need a character these
\* sources do not have, and \w*\w+, \d*\d+ and \s*\s+ match a source as soon
\* as it holds one word character, one digit or one whitespace character
MatchesRedosPattern(source) ==
  \E i \in 1..Len(source) :
    WordChar(source[i]) \/ IsDigits(source[i]) \/ source[i] \in Whitespace

analyzeRegExpComplexity(source) ==
  LET quantifiers == MatchCount(source, {"+", "*", "?"})
      groups == MatchCount(source, {"("})
      alternations == MatchCount(source, {"|"})
      characterClasses == MatchCount(source, {"["})
      wildcards == MatchCount(source, {"."})
      anchors == MatchCount(source, {"^", "$"})
  IN quantifiers * 5 + groups * 3 + alternations * 4 + characterClasses * 2
     + wildcards * 3 + anchors * 1
     + (IF quantifiers > 0 /\ groups > 0 THEN quantifiers * groups * 10 ELSE 0)
     + (IF alternations > 0 /\ quantifiers > 0 THEN alternations * quantifiers * 8 ELSE 0)

\* calculateNestingDepth: depth after i characters is the number of ( less the
\* number of ) among them, and maxDepth is the largest depth the loop saw
calculateNestingDepth(source) ==
  LET opened == {i \in 1..Len(source) : source[i] = "("}
      closed == {i \in 1..Len(source) : source[i] = ")"}
      depth(i) == Cardinality({j \in opened : j <= i}) - Cardinality({j \in closed : j <= i})
      depths == {0} \cup {depth(i) : i \in opened}
  IN CHOOSE d \in depths : \A e \in depths : e <= d

MaxRiskScore == 100
MaxPatternLength == 500
MaxPatternNesting == 10
MaxQuantifiers == 20

validateRegExpPattern(pattern) ==
  LET source == RegExpSource(pattern)
      flags == pattern.flags
  IN IF /\ StartsWith(source, <<"^">>) /\ EndsWith(source, <<"$">>)
        /\ ~IncludesText(source, <<".", "*">>) /\ ~IncludesText(source, <<".", "+">>)
     THEN Ok(Undef)
     ELSE IF MatchesRedosPattern(source)
          THEN Throw(ZErr("RegExp pattern contains ReDoS vulnerability"))
     ELSE IF analyzeRegExpComplexity(source) > MaxRiskScore
          THEN Throw(ZErr("RegExp pattern complexity exceeds safe limits"))
     ELSE IF SourceLength(source) > MaxPatternLength
          THEN Throw(ZErr("RegExp pattern is too long"))
     ELSE IF calculateNestingDepth(source) > MaxPatternNesting
          THEN Throw(ZErr("RegExp pattern nesting depth exceeds safe limits"))
     ELSE IF MatchCount(source, {"+", "*", "?", "{", "}"}) > MaxQuantifiers
          THEN Throw(ZErr("RegExp pattern has too many quantifiers"))
     ELSE IF "g" \in flags /\ "i" \in flags /\ IncludesText(source, <<".", "*">>)
          THEN Throw(ZErr("RegExp pattern with global, case-insensitive flags and .* is potentially dangerous"))
     ELSE Ok(Undef)

\* the first RegExp matcher of the registrations that validateRegExpPattern
\* refuses, in the order of the loops of the constructor, registerGlobal and
\* registerNamespace
RegExpMatchers(registrations) ==
  LET RECURSIVE ofPaths(_)
      ofPaths(paths) ==
        IF paths = <<>> THEN <<>>
        ELSE (IF Head(paths).k = "regexp" THEN <<Head(paths)>> ELSE <<>>)
             \o ofPaths(Tail(paths))
      RECURSIVE ofExtensions(_)
      ofExtensions(extensions) ==
        IF extensions = <<>> THEN <<>>
        ELSE (IF Truthy(Head(extensions).allowedOnPath)
              THEN ofPaths(Head(extensions).allowedOnPath.e) ELSE <<>>)
             \o ofExtensions(Tail(extensions))
      RECURSIVE ofRegistrations(_)
      ofRegistrations(regs) ==
        IF regs = <<>> THEN <<>>
        ELSE ofExtensions(Head(regs).extensions) \o ofRegistrations(Tail(regs))
  IN ofRegistrations(registrations)

\* the constructor returns: no RegExp matcher of the registrations is refused
Constructs(registrations) ==
  \A g \in 1..Len(registrations) : \A e \in 1..Len(registrations[g].extensions) :
    LET paths == registrations[g].extensions[e].allowedOnPath
    IN Truthy(paths) =>
         \A m \in 1..Len(paths.e) :
           paths.e[m].k = "regexp" => validateRegExpPattern(paths.e[m]).ok

\* Map.prototype.get on a map modelled as a function
MapHas(m, key) == key \in DOMAIN m
MapSet(m, key, v) == [x \in (DOMAIN m) \cup {key} |-> IF x = key THEN v ELSE m[x]]

\* registerGlobal and registerNamespace: later registrations replace earlier ones
RECURSIVE RegisterAll(_, _)
RegisterAll(m, extensions) ==
  IF extensions = <<>> THEN m
  ELSE RegisterAll(MapSet(m, Head(extensions).name, Head(extensions)), Tail(extensions))

\* the constructor: registrations is a sequence of groups [namespace, extensions],
\* namespace <<>> for a bare list or a group without a namespace
RECURSIVE Construct(_, _)
Construct(this, registrations) ==
  IF registrations = <<>> THEN this
  ELSE LET reg == Head(registrations)
           next ==
             IF reg.namespace # <<>>
             THEN [this EXCEPT !.namespacedExtensions =
                     MapSet(@, reg.namespace,
                            RegisterAll(IF MapHas(@, reg.namespace) THEN @[reg.namespace]
                                        ELSE <<>>, reg.extensions))]
             ELSE [this EXCEPT !.globalExtensions = RegisterAll(@, reg.extensions)]
       IN Construct(next, Tail(registrations))

ZontaxParser(mode, registrations) ==
  Construct([mode |-> mode, globalExtensions |-> <<>>, namespacedExtensions |-> <<>>],
            registrations)

\* new ZontaxParser({mode}, registrations): the instance, or the error that
\* validateRegExpPattern throws on the first matcher it refuses
NewZontaxParser(mode, registrations) ==
  LET matchers == RegExpMatchers(registrations)
      refused == {i \in 1..Len(matchers) : ~validateRegExpPattern(matchers[i]).ok}
      first == CHOOSE i \in refused : \A j \in refused : i <= j
  IN IF refused = {} THEN Ok(ZontaxParser(mode, registrations))
     ELSE Throw(validateRegExpPattern(matchers[first]).err)

\* RegExp.prototype.test: the result and the lastIndex it leaves
RegExpTest(rx, str) ==
  LET stateful == rx.flags \cap {"g", "y"} # {}
      start == IF stateful THEN rx.lastIndex ELSE 0
      n == Len(rx.body)
      hits == {p \in start..(Len(str) - n) :
                 /\ SubSeq(str, p + 1, p + n) = rx.body
                 /\ rx.anchorStart => p = 0
                 /\ rx.anchorEnd => p + n = Len(str)
                 /\ "y" \in rx.flags => p = start}
      first == CHOOSE p \in hits : \A q \in hits : p <= q
  IN IF hits # {}
     THEN [res |-> TRUE, lastIndex |-> IF stateful THEN first + n ELSE rx.lastIndex]
     ELSE [res |-> FALSE, lastIndex |-> IF stateful THEN 0 ELSE rx.lastIndex]

\* one string matcher of allowedOnPath against the current path
StringMatcherAllows(pattern, currentPath) ==
  IF EndsWith(pattern, <<".", "*">>)
  THEN LET base == SubSeq(pattern, 1, Len(pattern) - 2)
       IN /\ StartsWith(currentPath, base)
          /\ Len(Split(currentPath, ".")) = Len(Split(base, ".")) + 1
  ELSE pattern = currentPath

\* extension.allowedOnPath.some(...): whether a matcher allows the path, and the
\* matchers as the tests leave them (some stops at the first that allows)
RECURSIVE SomeMatcherAllows(_, _, _)
SomeMatcherAllows(matchers, i, currentPath) ==
  IF i > Len(matchers) THEN [allowed |-> FALSE, matchers |-> matchers]
  ELSE IF matchers[i].k = "string"
       THEN IF StringMatcherAllows(matchers[i].s, currentPath)
            THEN [allowed |-> TRUE, matchers |-> matchers]
            ELSE SomeMatcherAllows(matchers, i + 1, currentPath)
  ELSE IF matchers[i].k = "regexp"
       THEN LET t == RegExpTest(matchers[i], currentPath)
                after == [matchers EXCEPT ![i].lastIndex = t.lastIndex]
            IN IF t.res THEN [allowed |-> TRUE, matchers |-> after]
               ELSE SomeMatcherAllows(after, i + 1, currentPath)
  ELSE SomeMatcherAllows(matchers, i + 1, currentPath)

(***************************************************************************)
(* The definition builder (buildDefinition and generateSafeValue)          *)
(***************************************************************************)
KNOWN_ZOD_METHODS ==
  {W("string"), W("number"), W("boolean"), W("date"), W("datetime"), W("bigint"),
   W("symbol"), W("null"), W("undefined"), W("void"), W("any"), W("unknown"), W("never"),
   W("object"), W("array"), W("tuple"), W("union"), W("enum"), W("literal"), W("record"),
   W("min"), W("max"), W("length"), W("email"), W("url"), W("uuid"), W("int"),
   W("positive"), W("negative"),
   W("optional"), W("nullable"), W("default"), W("describe")}

ValidationMethods ==
  {W("min"), W("max"), W("length"), W("email"), W("url"), W("uuid"), W("int"),
   W("positive"), W("negative")}

PrimitiveTypeMethods ==
  {W("string"), W("number"), W("boolean"), W("date"), W("datetime"), W("bigint"),
   W("symbol"), W("null"), W("undefined"), W("void"), W("any"), W("unknown"), W("never")}

\* the whitelist of validateASTNode
allowedNodeTypes ==
  {"ExpressionStatement", "CallExpression", "MemberExpression", "ObjectExpression",
   "ArrayExpression", "Property", "Identifier", "Literal", "UnaryExpression"}

\* What a step of the builder gives: a value or a thrown error, and the parser
\* instance as the step leaves it (a RegExp matcher keeps its lastIndex).
Ret(v, this) == [ok |-> TRUE, val |-> v, this |-> this]
Raise(e, this) == [ok |-> FALSE, err |-> e, this |-> this]

\* node.name as a JS value
NameOf(node) == IF "name" \in DOMAIN node THEN Str(node.name) ELSE Undef

\* validateASTNode: the error it throws, or none
validateASTNode(node, depth) ==
  IF depth > MaxAstDepth THEN Throw(ZErr("AST depth exceeds maximum allowed depth"))
  ELSE IF ~IsNode(node) THEN Throw(ZErr("Invalid AST node"))
  ELSE IF node.type \notin allowedNodeTypes
       THEN Throw(ZErrT("Unsupported AST node type", node.type))
  ELSE Ok(Undef)

\* args[0]
Arg0(args) == IF Len(args) > 0 THEN args[1] ELSE Undef

\* data.namespaces[namespace][extName] = {value} or data.extensions[extName] = {value}
RecordExtension(data, namespace, extName, args) ==
  LET entry == Obj(<<[key |-> W("value"),
                      val |-> IF Len(args) = 1 THEN args[1] ELSE Arr(args)]>>)
  IN IF Truthy(namespace)
     THEN LET d1 == IF ~Truthy(Get(data, W("namespaces")))
                    THEN Put(data, W("namespaces"), EmptyObj) ELSE data
              nss == Get(d1, W("namespaces"))
              ns1 == IF ~Truthy(Get(nss, namespace.s))
                     THEN Put(nss, namespace.s, EmptyObj) ELSE nss
          IN Put(d1, W("namespaces"),
                 Put(ns1, namespace.s, Put(Get(ns1, namespace.s), extName, entry)))
     ELSE LET d1 == IF ~Truthy(Get(data, W("extensions")))
                    THEN Put(data, W("extensions"), EmptyObj) ELSE data
          IN Put(d1, W("extensions"), Put(Get(d1, W("extensions")), extName, entry))

ErrPath(method, path) ==
  [name |-> "ZontaxMergeError", msg |-> "Extension is not allowed on path",
   method |-> method, path |-> path]
ErrMethod(method) ==
  [name |-> "ZontaxMergeError", msg |-> "Unrecognized method", method |-> method]

\* the property key of an object literal: prop.key.value of a Literal key,
\* else prop.key.name
KeyOf(prop) ==
  IF prop.key.type = "Literal"
  THEN (CASE prop.key.value.k = "string" -> prop.key.value.s
          [] prop.key.value.k = "number" -> W(ToString(prop.key.value.n))
          [] OTHER -> W(prop.key.value.k))
  ELSE IF "name" \in DOMAIN prop.key THEN prop.key.name ELSE W("undefined")

RECURSIVE buildDefinition(_, _, _, _)
RECURSIVE generateSafeValue(_, _)
RECURSIVE BuildEach(_, _, _, _, _)
RECURSIVE WalkChain(_, _, _, _, _)
RECURSIVE BuildFields(_, _, _, _, _)
RECURSIVE SafeElements(_, _, _)
RECURSIVE SafeProperties(_, _, _)

\* nodes.map(n => this.buildDefinition(n, path, depth)): the values, appended to acc
BuildEach(nodes, path, depth, this, acc) ==
  IF nodes = <<>> THEN Ret(acc, this)
  ELSE LET r == buildDefinition(Head(nodes), path, depth, this)
       IN IF ~r.ok THEN r
          ELSE BuildEach(Tail(nodes), path, depth, r.this, Append(acc, r.val))

\* a built-in that takes its children from the array literal argument
\* (enum, tuple, union): data.type and data[slot]
ListBuiltin(current, data, type, slot, args, path, depth, this) ==
  IF current.arguments = <<>> THEN Raise(TypeErr, this)
  ELSE LET typed == Put(data, W("type"), Str(W(type)))
           arg == current.arguments[1]
       IN IF arg.type = "ArrayExpression"
          THEN LET r == BuildEach(arg.elements, path, depth + 1, this, <<>>)
               IN IF ~r.ok THEN r ELSE Ret(Put(typed, W(slot), Arr(r.val)), r.this)
          ELSE Ret(Put(typed, W(slot), args[1]), this)

\* the branch of a name of KNOWN_ZOD_METHODS
BuiltinMethod(current, data, methodName, args, path, depth, this) ==
  CASE methodName \in ValidationMethods ->
         LET d1 == IF ~Truthy(Get(data, W("validations")))
                   THEN Put(data, W("validations"), EmptyObj) ELSE data
         IN Ret(Put(d1, W("validations"),
                    Put(Get(d1, W("validations")), methodName,
                        IF Len(args) > 0 THEN args[1] ELSE Bool(TRUE))), this)
    [] methodName \in PrimitiveTypeMethods ->
         Ret(Put(data, W("type"),
                 Str(IF methodName = W("datetime") THEN W("date") ELSE methodName)), this)
    [] methodName = W("record") ->
         Ret(Put(Put(Put(data, W("type"), Str(W("record"))), W("keySchema"), Arg0(args)),
                 W("valueSchema"), IF Len(args) > 1 THEN args[2] ELSE Undef), this)
    [] methodName = W("optional") -> Ret(Put(data, W("optional"), Bool(TRUE)), this)
    [] methodName = W("nullable") -> Ret(Put(data, W("nullable"), Bool(TRUE)), this)
    [] methodName = W("default") -> Ret(Put(data, W("defaultValue"), Arg0(args)), this)
    [] methodName = W("describe") -> Ret(Put(data, W("description"), Arg0(args)), this)
    [] methodName = W("object") ->
         IF Arg0(args).k \in {"undefined", "null"} THEN Raise(TypeErr, this)
         ELSE Ret(Put(Put(data, W("type"), Str(W("object"))), W("fields"),
                      Get(Arg0(args), W("fields"))), this)
    [] methodName = W("array") ->
         Ret(Put(Put(data, W("type"), Str(W("array"))), W("of"), Arg0(args)), this)
    [] methodName = W("enum") ->
         ListBuiltin(current, data, "enum", "values", args, path, depth, this)
    [] methodName = W("literal") ->
         Ret(Put(Put(data, W("type"), Str(W("literal"))), W("value"), Arg0(args)), this)
    [] methodName = W("tuple") ->
         ListBuiltin(current, data, "tuple", "items", args, path, depth, this)
    [] methodName = W("union") ->
         ListBuiltin(current, data, "union", "options", args, path, depth, this)

\* the branch of a registered extension: the path test, then the record
RegisteredExtension(extension, data, methodName, namespace, extName, args, path, this) ==
  IF extension.allowedOnPath.k = "undefined"
  THEN Ret(RecordExtension(data, namespace, extName, args), this)
  ELSE LET currentPath == Join(path, <<".">>)
           t == SomeMatcherAllows(extension.allowedOnPath.e, 1, currentPath)
           this1 ==
             IF Truthy(namespace)
             THEN [this EXCEPT
                     !.namespacedExtensions[namespace.s][extName].allowedOnPath.e = t.matchers]
             ELSE [this EXCEPT !.globalExtensions[extName].allowedOnPath.e = t.matchers]
       IN IF ~t.allowed THEN Raise(ErrPath(methodName, currentPath), this1)
          ELSE Ret(RecordExtension(data, namespace, extName, args), this1)

\* a resolution that would try the built-in names before the registry
ResolveMethodBuiltinFirst(current, data, methodName, args, path, depth, this) ==
  LET parts == Split(methodName, "$")
      namespace == IF Includes(methodName, "$") THEN Str(parts[1]) ELSE Null
      extName == IF Includes(methodName, "$") THEN parts[2] ELSE methodName
      registered ==
        IF Truthy(namespace)
        THEN /\ MapHas(this.namespacedExtensions, namespace.s)
             /\ MapHas(this.namespacedExtensions[namespace.s], extName)
        ELSE MapHas(this.globalExtensions, extName)
      extension ==
        IF Truthy(namespace) THEN this.namespacedExtensions[namespace.s][extName]
        ELSE this.globalExtensions[extName]
  IN IF methodName \in KNOWN_ZOD_METHODS
     THEN BuiltinMethod(current, data, methodName, args, path, depth, this)
     ELSE IF registered
          THEN RegisteredExtension(extension, data, methodName, namespace, extName, args,
                                   path, this)
     ELSE IF this.mode = "loose"
          THEN Ret(RecordExtension(data, namespace, extName, args), this)
     ELSE Raise(ErrMethod(methodName), this)

\* the resolution of one method call of a chain
ResolveMethod(current, data, methodName, args, path, depth, this) ==
  LET parts == Split(methodName, "$")
      namespace == IF Includes(methodName, "$") THEN Str(parts[1]) ELSE Null
      extName == IF Includes(methodName, "$") THEN parts[2] ELSE methodName
      registered ==
        IF Truthy(namespace)
        THEN /\ MapHas(this.namespacedExtensions, namespace.s)
             /\ MapHas(this.namespacedExtensions[namespace.s], extName)
        ELSE MapHas(this.globalExtensions, extName)
      extension ==
        IF Truthy(namespace) THEN this.namespacedExtensions[namespace.s][extName]
        ELSE this.globalExtensions[extName]
  IN IF registered
     THEN RegisteredExtension(extension, data, methodName, namespace, extName, args,
                              path, this)
     ELSE IF methodName \in KNOWN_ZOD_METHODS
          THEN BuiltinMethod(current, data, methodName, args, path, depth, this)
     ELSE IF this.mode = "loose"
          THEN Ret(RecordExtension(data, namespace, extName, args), this)
     ELSE Raise(ErrMethod(methodName), this)

\* the body of the while loop for one call of the chain
ChainStep(current, data, path, depth, this) ==
  IF current.callee.type # "MemberExpression" THEN Ret(data, this)
  ELSE LET methodName == NameOf(current.callee.property)
           a == BuildEach(current.arguments, path, depth + 1, this, <<>>)
       IN IF ~a.ok THEN a
          ELSE IF methodName.k # "string" THEN Raise(TypeErr, a.this)
          ELSE ResolveMethod(current, data, methodName.s, a.val, path, depth, a.this)

\* the base case after the loop: Z.typeName sets data.type
ChainBase(current, data) ==
  IF /\ IsNode(current)
     /\ current.type = "MemberExpression"
     /\ NameOf(current.object) = Str(W("Z"))
  THEN Put(data, W("type"), NameOf(current.property))
  ELSE data

\* while (current && current.type === "CallExpression") { ... }
WalkChain(current, data, path, depth, this) ==
  IF IsNode(current) /\ current.type = "CallExpression"
  THEN LET r == ChainStep(current, data, path, depth, this)
       IN IF ~r.ok THEN r
          ELSE WalkChain(Field(current.callee, "object"), r.val, path, depth, r.this)
  ELSE Ret(ChainBase(current, data), this)

\* the loop over the properties of an object literal
BuildFields(props, fields, path, depth, this) ==
  IF props = <<>> THEN Ret(fields, this)
  ELSE LET key == KeyOf(Head(props))
           named == Head(props).key.type = "Literal" \/ "name" \in DOMAIN Head(props).key
           r == buildDefinition(Head(props).value,
                                Append(path, IF named THEN key ELSE <<>>), depth + 1, this)
       IN IF ~r.ok THEN r
          ELSE BuildFields(Tail(props), Put(fields, key, r.val), path, depth, r.this)

buildDefinition(node, path, depth, this) ==
  LET v == validateASTNode(node, depth)
  IN IF ~v.ok THEN Raise(v.err, this)
     ELSE IF node.type = "ExpressionStatement"
          THEN buildDefinition(node.expression, path, depth + 1, this)
     ELSE IF node.type = "CallExpression"
          THEN WalkChain(node, EmptyObj, path, depth, this)
     ELSE IF node.type = "ObjectExpression"
          THEN LET r == BuildFields(node.properties, EmptyObj, path, depth, this)
               IN IF ~r.ok THEN r
                  ELSE Ret(Obj(<<[key |-> W("type"), val |-> Str(W("object"))],
                                 [key |-> W("fields"), val |-> r.val]>>), r.this)
     ELSE IF /\ node.type = "MemberExpression"
             /\ node.object.type = "Identifier"
             /\ node.object.name = W("Z")
          THEN Ret(Obj(<<[key |-> W("type"), val |-> NameOf(node.property)]>>), this)
     ELSE generateSafeValue(node, this)

\* node.elements.map(...) of generateSafeValue
SafeElements(elems, this, acc) ==
  IF elems = <<>> THEN Ret(Arr(acc), this)
  ELSE LET elem == Head(elems)
           r == IF ~IsNode(elem) THEN Raise(ZErr("Invalid array element"), this)
                ELSE IF elem.type = "CallExpression"
                     THEN buildDefinition(elem, <<>>, 0, this)
                ELSE generateSafeValue(elem, this)
       IN IF ~r.ok THEN r ELSE SafeElements(Tail(elems), r.this, Append(acc, r.val))

\* the loop over the properties of generateSafeValue
SafeProperties(props, obj, this) ==
  IF props = <<>> THEN Ret(obj, this)
  ELSE LET prop == Head(props)
       IN IF prop.key.type # "Identifier"
             /\ ~(prop.key.type = "Literal" /\ prop.key.value.k = "string")
          THEN Raise(ZErr("Invalid property key"), this)
          ELSE LET key == IF prop.key.type = "Identifier" THEN prop.key.name
                          ELSE prop.key.value.s
                   r == generateSafeValue(prop.value, this)
               IN IF ~r.ok THEN r
                  ELSE SafeProperties(Tail(props), Put(obj, key, r.val), r.this)

generateSafeValue(node, this) ==
  IF ~IsNode(node) THEN Raise(ZErr("Invalid node structure"), this)
  ELSE CASE node.type = "Literal" ->
              IF node.value.k \in {"null", "string", "number", "boolean"}
              THEN Ret(node.value, this)
              ELSE Raise(ZErr("Unsupported literal value type"), this)
         [] node.type = "ObjectExpression" -> SafeProperties(node.properties, EmptyObj, this)
         [] node.type = "ArrayExpression" -> SafeElements(node.elements, this, <<>>)
         [] node.type = "Identifier" ->
              (CASE node.name = W("undefined") -> Ret(Undef, this)
                 [] node.name = W("NaN") -> Ret(NaNv, this)
                 [] node.name = W("Infinity") -> Ret(Infv, this)
                 [] OTHER -> Raise(ZErr("Unsupported identifier"), this))
         [] node.type = "UnaryExpression" ->
              IF /\ node.operator = "-"
                 /\ IsNode(node.argument)
                 /\ node.argument.type = "Literal"
                 /\ node.argument.value.k = "number"
              THEN Ret(Num(0 - node.argument.value.n), this)
              ELSE Raise(ZErr("Unsupported unary expression"), this)
         [] OTHER -> Raise(ZErr("Unsupported node type"), this)

(***************************************************************************)
(* The heap.  The merge engine works on objects by reference: a heap is a  *)
(* sequence of objects and arrays whose object-valued entries are          *)
(* references (indices of the heap).  A value is a primitive or a          *)
(* reference.                                                              *)
(***************************************************************************)
HRet(h, v) == [ok |-> TRUE, h |-> h, val |-> v]
HRaise(h, e) == [ok |-> FALSE, h |-> h, err |-> e]

\* the values of the entries of a cell, and a cell with new values
Vals(cell) ==
  IF cell.k = "object" THEN [i \in 1..Len(cell.e) |-> cell.e[i].val] ELSE cell.e
WithVals(cell, vals) ==
  IF cell.k = "object"
  THEN Obj([i \in 1..Len(cell.e) |-> [key |-> cell.e[i].key, val |-> vals[i]]])
  ELSE Arr(vals)

\* a tree value as freshly built objects on the heap
RECURSIVE Alloc(_, _)
RECURSIVE AllocEach(_, _, _)
AllocEach(h, vs, acc) ==
  IF vs = <<>> THEN [h |-> h, vals |-> acc]
  ELSE LET r == Alloc(h, Head(vs)) IN AllocEach(r.h, Tail(vs), Append(acc, r.val))

Alloc(h, v) ==
  IF v.k \in {"object", "array"}
  THEN LET r == AllocEach(h, Vals(v), <<>>)
       IN [h |-> Append(r.h, WithVals(v, r.vals)), val |-> Ref(Len(r.h) + 1)]
  ELSE [h |-> h, val |-> v]

\* the tree a heap value stands for
RECURSIVE Deref(_, _)
Deref(h, v) ==
  IF IsRef(v)
  THEN WithVals(h[v.a], [i \in 1..Len(Vals(h[v.a])) |-> Deref(h, Vals(h[v.a])[i])])
  ELSE v

HGet(h, ref, key) == Get(h[ref.a], key)
HPut(h, ref, key, v) == [h EXCEPT ![ref.a] = Put(@, key, v)]

\* deepClone: a primitive is returned as it is, an array or an object is
\* copied entry by entry into a new object
RECURSIVE deepClone(_, _)
RECURSIVE CloneEach(_, _, _)
CloneEach(h, vs, acc) ==
  IF vs = <<>> THEN [h |-> h, vals |-> acc]
  ELSE LET r == deepClone(h, Head(vs)) IN CloneEach(r.h, Tail(vs), Append(acc, r.val))

deepClone(h, obj) ==
  IF ~IsRef(obj) THEN [h |-> h, val |-> obj]
  ELSE LET r == CloneEach(h, Vals(h[obj.a]), <<>>)
       IN [h |-> Append(r.h, WithVals(h[obj.a], r.vals)), val |-> Ref(Len(r.h) + 1)]

(***************************************************************************)
(* The merge engine (validateDefinition and deepMergeDefinitions)          *)
(***************************************************************************)
\* validateDefinition: the error it throws, or none
validateDefinition(h, def) ==
  IF ~IsRef(def) THEN Throw(ZErr("Invalid definition object"))
  ELSE LET type == HGet(h, def, W("type"))
           bad(key) == Truthy(HGet(h, def, key)) /\ ~IsRef(HGet(h, def, key))
       IN IF Truthy(type) /\ type.k # "string"
          THEN Throw(ZErr("Definition type must be a string"))
          ELSE IF bad(W("fields")) THEN Throw(ZErr("Definition fields must be an object"))
          ELSE IF bad(W("validations"))
               THEN Throw(ZErr("Definition validations must be an object"))
          ELSE IF bad(W("extensions"))
               THEN Throw(ZErr("Definition extensions must be an object"))
          ELSE IF bad(W("namespaces"))
               THEN Throw(ZErr("Definition namespaces must be an object"))
          ELSE Ok(Undef)

ErrTypeMismatch(i, field, overlayType, baseType) ==
  [name |-> "ZontaxMergeError", msg |-> "Type mismatch", index |-> i, field |-> field,
   from |-> overlayType, into |-> baseType]
ErrValidationConflict(i, field, key) ==
  [name |-> "ZontaxMergeError", msg |-> "Validation conflict", index |-> i,
   field |-> field, key |-> key]

\* if (!base[key]) base[key] = {}
EnsureObject(h, base, key) ==
  IF ~Truthy(HGet(h, base, key))
  THEN HPut(Append(h, EmptyObj), base, key, Ref(Len(h) + 1))
  ELSE h

\* an assignment that would keep the entries the target already has
RECURSIVE ObjectAssignKeepFirst(_, _, _, _)
ObjectAssignKeepFirst(h, target, source, j) ==
  IF j > Len(h[source.a].e) THEN h
  ELSE ObjectAssignKeepFirst(
         IF HasKey(h[target.a], h[source.a].e[j].key) THEN h
         ELSE HPut(h, target, h[source.a].e[j].key, h[source.a].e[j].val),
         target, source, j + 1)

\* Object.assign(target, source)
RECURSIVE ObjectAssign(_, _, _, _)
ObjectAssign(h, target, source, j) ==
  IF j > Len(h[source.a].e) THEN h
  ELSE ObjectAssign(HPut(h, target, h[source.a].e[j].key, h[source.a].e[j].val),
                    target, source, j + 1)

RECURSIVE deepMergeDefinitions(_, _, _)
RECURSIVE MergeOverlays(_, _, _, _, _)
RECURSIVE MergeFieldNames(_, _, _, _, _)

\* for (const fieldName in overlay.fields) { ... } from the j-th name on
MergeFieldNames(h, baseFields, overlayFields, j, path) ==
  IF j > Len(h[overlayFields.a].e) THEN HRet(h, baseFields)
  ELSE LET fieldName == h[overlayFields.a].e[j].key
           theirs == h[overlayFields.a].e[j].val
           ours == HGet(h, baseFields, fieldName)
       IN IF ~Truthy(ours)
          THEN MergeFieldNames(HPut(h, baseFields, fieldName, theirs),
                               baseFields, overlayFields, j + 1, path)
          ELSE LET r == deepMergeDefinitions(h, <<ours, theirs>>, Append(path, fieldName))
               IN IF ~r.ok THEN r
                  ELSE MergeFieldNames(HPut(r.h, baseFields, fieldName, r.val),
                                       baseFields, overlayFields, j + 1, path)

\* if (overlay.fields) { ... }
MergeFieldsOf(h, base, overlay, path) ==
  IF ~Truthy(HGet(h, overlay, W("fields"))) THEN HRet(h, base)
  ELSE LET h1 == EnsureObject(h, base, W("fields"))
       IN MergeFieldNames(h1, HGet(h1, base, W("fields")), HGet(h1, overlay, W("fields")),
                          1, path)

\* for (const key in overlay.validations) { ... } from the j-th key on
RECURSIVE MergeValidationKeys(_, _, _, _, _, _)
MergeValidationKeys(h, baseVals, overlayVals, j, i, currentPath) ==
  IF j > Len(h[overlayVals.a].e) THEN HRet(h, baseVals)
  ELSE LET key == h[overlayVals.a].e[j].key
           theirs == h[overlayVals.a].e[j].val
           ours == HGet(h, baseVals, key)
       IN IF ours # Undef /\ ~StrictEq(ours, theirs)
          THEN HRaise(h, ErrValidationConflict(i, currentPath, key))
          ELSE MergeValidationKeys(HPut(h, baseVals, key, theirs), baseVals, overlayVals,
                                   j + 1, i, currentPath)

\* if (overlay.validations) { ... }
MergeValidationsOf(h, base, overlay, i, currentPath) ==
  IF ~Truthy(HGet(h, overlay, W("validations"))) THEN HRet(h, base)
  ELSE LET h1 == EnsureObject(h, base, W("validations"))
       IN MergeValidationKeys(h1, HGet(h1, base, W("validations")),
                              HGet(h1, overlay, W("validations")), 1, i, currentPath)

\* if (overlay.extensions) { ... }
MergeExtensionsOf(h, base, overlay) ==
  IF ~Truthy(HGet(h, overlay, W("extensions"))) THEN h
  ELSE LET h1 == EnsureObject(h, base, W("extensions"))
       IN ObjectAssign(h1, HGet(h1, base, W("extensions")),
                       HGet(h1, overlay, W("extensions")), 1)

\* for (const nsName in overlay.namespaces) { ... } from the j-th name on
RECURSIVE MergeNamespaceNames(_, _, _, _)
MergeNamespaceNames(h, baseNss, overlayNss, j) ==
  IF j > Len(h[overlayNss.a].e) THEN h
  ELSE LET nsName == h[overlayNss.a].e[j].key
           h1 == EnsureObject(h, baseNss, nsName)
       IN MergeNamespaceNames(
            ObjectAssign(h1, HGet(h1, baseNss, nsName), h[overlayNss.a].e[j].val, 1),
            baseNss, overlayNss, j + 1)

\* if (overlay.namespaces) { ... }
MergeNamespacesOf(h, base, overlay) ==
  IF ~Truthy(HGet(h, overlay, W("namespaces"))) THEN h
  ELSE LET h1 == EnsureObject(h, base, W("namespaces"))
       IN MergeNamespaceNames(h1, HGet(h1, base, W("namespaces")),
                              HGet(h1, overlay, W("namespaces")), 1)

\* optional, nullable, defaultValue and description of the overlay
MergeScalarsOf(h, base, overlay) ==
  LET h1 == IF Truthy(HGet(h, overlay, W("optional")))
            THEN HPut(h, base, W("optional"), Bool(TRUE)) ELSE h
      h2 == IF Truthy(HGet(h1, overlay, W("nullable")))
            THEN HPut(h1, base, W("nullable"), Bool(TRUE)) ELSE h1
      h3 == IF HGet(h2, overlay, W("defaultValue")) # Undef
            THEN HPut(h2, base, W("defaultValue"), HGet(h2, overlay, W("defaultValue")))
            ELSE h2
  IN IF HGet(h3, overlay, W("description")) # Undef
     THEN HPut(h3, base, W("description"), HGet(h3, overlay, W("description")))
     ELSE h3

\* the body of the loop over the overlays, for defs[i]
MergeOverlay(h, base, overlay, i, path) ==
  LET currentPath == Join(path, <<".">>)
      baseType == HGet(h, base, W("type"))
      overlayType == HGet(h, overlay, W("type"))
  IN IF Truthy(baseType) /\ Truthy(overlayType) /\ ~StrictEq(baseType, overlayType)
     THEN HRaise(h, ErrTypeMismatch(i, currentPath, overlayType.s, baseType.s))
     ELSE LET f == MergeFieldsOf(h, base, overlay, path)
          IN IF ~f.ok THEN f
             ELSE LET v == MergeValidationsOf(f.h, base, overlay, i, currentPath)
                  IN IF ~v.ok THEN v
                     ELSE HRet(MergeScalarsOf(
                                 MergeNamespacesOf(
                                   MergeExtensionsOf(v.h, base, overlay), base, overlay),
                                 base, overlay), base)

\* for (let i = 1; i < defs.length; i++) { ... } from index i on (defs[i] is
\* the element i + 1 of the sequence)
MergeOverlays(h, base, defs, i, path) ==
  IF i >= Len(defs) THEN HRet(h, base)
  ELSE LET r == MergeOverlay(h, base, defs[i + 1], i, path)
       IN IF ~r.ok THEN r ELSE MergeOverlays(r.h, base, defs, i + 1, path)

\* a base that would be the first definition itself
MergeBaseShared(h, defs) == [h |-> h, val |-> defs[1]]

\* the base of the merge: a deep copy of the first definition
MergeBase(h, defs) == deepClone(h, defs[1])

deepMergeDefinitions(h, defs, path) ==
  IF Len(defs) = 0 THEN HRet(Append(h, EmptyObj), Ref(Len(h) + 1))
  ELSE LET invalid == {i \in 1..Len(defs) : ~validateDefinition(h, defs[i]).ok}
           first == CHOOSE i \in invalid : \A j \in invalid : i <= j
       IN IF invalid # {} THEN HRaise(h, validateDefinition(h, defs[first]).err)
          ELSE IF Len(defs) = 1 THEN HRet(h, defs[1])
          ELSE LET c == MergeBase(h, defs)
               IN MergeOverlays(c.h, c.val, defs, 1, path)

(***************************************************************************)
(* The schema string (generateSchemaString), on the tree of a definition   *)
(***************************************************************************)
\* JSON.stringify of a string: quotes and backslashes are escaped
RECURSIVE JSONEscape(_)
JSONEscape(s) ==
  IF s = <<>> THEN <<>>
  ELSE (IF Head(s) \in {"\"", "\\"} THEN <<"\\", Head(s)>> ELSE <<Head(s)>>)
       \o JSONEscape(Tail(s))

NumberText(n) == IF n < 0 THEN <<"-", ToString(0 - n)>> ELSE <<ToString(n)>>

\* JSON.stringify: Undef stands for the result undefined
RECURSIVE JSONStringify(_)
JSONStringify(v) ==
  CASE v.k = "string" -> Str(<<"\"">> \o JSONEscape(v.s) \o <<"\"">>)
    [] v.k = "number" -> Str(NumberText(v.n))
    [] v.k = "boolean" -> Str(IF v.b THEN W("true") ELSE W("false"))
    [] v.k \in {"null", "NaN", "Infinity"} -> Str(W("null"))
    [] v.k = "undefined" -> Undef
    [] v.k = "array" ->
         Str(<<"[">> \o
             Join([i \in 1..Len(v.e) |->
                     IF JSONStringify(v.e[i]) = Undef THEN W("null")
                     ELSE JSONStringify(v.e[i]).s], <<",">>)
             \o <<"]">>)
    [] v.k = "object" ->
         LET kept == SelectSeq(v.e, LAMBDA p : JSONStringify(p.val) # Undef)
         IN Str(<<"{">> \o
                Join([i \in 1..Len(kept) |->
                        <<"\"">> \o JSONEscape(kept[i].key) \o <<"\"", ":">>
                        \o JSONStringify(kept[i].val).s], <<",">>)
                \o <<"}">>)

\* `${JSON.stringify(v)}` in a template string
Interpolated(v) == IF JSONStringify(v) = Undef THEN W("undefined") ELSE JSONStringify(v).s

generateVersionSpecificMethod(method, args) ==
  <<"z", ".">> \o method \o
  (IF Len(args) > 0 THEN <<"(">> \o Join(args, <<",", " ">>) \o <<")">> ELSE <<"(", ")">>)

RECURSIVE generateSchemaString(_)
\* the calls of the validations in the reverse of the order of the keys
ValidationCallsReversed(validations) ==
  IF ~IsObj(validations) THEN <<>>
  ELSE Concat([i \in 1..Len(validations.e) |->
         LET v == validations.e[Len(validations.e) + 1 - i]
         IN <<".">> \o v.key \o <<"(">> \o
            (IF v.val = Bool(TRUE) THEN <<>> ELSE Interpolated(v.val)) \o <<")">>])

\* the calls of the validations, in the order of the keys
ValidationCalls(validations) ==
  IF ~IsObj(validations) THEN <<>>
  ELSE Concat([i \in 1..Len(validations.e) |->
         <<".">> \o validations.e[i].key \o <<"(">> \o
         (IF validations.e[i].val = Bool(TRUE) THEN <<>>
          ELSE Interpolated(validations.e[i].val))
         \o <<")">>])

\* the schema strings of the elements of an array, joined; "" for no array
SchemaList(v) ==
  IF v.k = "array"
  THEN Join([i \in 1..Len(v.e) |-> generateSchemaString(v.e[i])], <<",", " ">>)
  ELSE <<>>

generateSchemaString(def) ==
  IF ~Truthy(def) \/ ~Truthy(Get(def, W("type"))) THEN <<>>
  ELSE
    LET type == Get(def, W("type"))
        fields == IF Truthy(Get(def, W("fields"))) THEN Get(def, W("fields")) ELSE EmptyObj
        values == IF Get(def, W("values")).k = "array"
                  THEN Get(def, W("values")).e ELSE <<Get(def, W("values"))>>
        chain ==
          CASE type = Str(W("object")) ->
                 <<"z", ".", "object", "(", "{", " ">> \o
                 Join([i \in 1..Len(fields.e) |->
                         fields.e[i].key \o <<":", " ">>
                         \o generateSchemaString(fields.e[i].val)], <<",", " ">>)
                 \o <<" ", "}", ")">>
            [] type = Str(W("array")) ->
                 <<"z", ".", "array", "(">> \o generateSchemaString(Get(def, W("of")))
                 \o <<")">>
            [] type = Str(W("record")) ->
                 <<"z", ".", "record", "(">>
                 \o generateSchemaString(Get(def, W("keySchema"))) \o <<",", " ">>
                 \o generateSchemaString(Get(def, W("valueSchema"))) \o <<")">>
            [] type = Str(W("enum")) ->
                 <<"z", ".", "enum", "(", "[">> \o
                 Join([i \in 1..Len(values) |-> Interpolated(values[i])], <<",", " ">>)
                 \o <<"]", ")">>
            [] type = Str(W("literal")) ->
                 <<"z", ".", "literal", "(">> \o Interpolated(Get(def, W("value")))
                 \o <<")">>
            [] type = Str(W("tuple")) ->
                 <<"z", ".", "tuple", "(", "[">> \o SchemaList(Get(def, W("items")))
                 \o <<"]", ")">>
            [] type = Str(W("union")) ->
                 <<"z", ".", "union", "(", "[">> \o SchemaList(Get(def, W("options")))
                 \o <<"]", ")">>
            [] OTHER -> <<"z", ".">> \o type.s \o <<"(", ")">>
    IN chain
       \o ValidationCalls(Get(def, W("validations")))
       \o (IF Truthy(Get(def, W("description")))
           THEN <<".", "describe", "(">> \o Interpolated(Get(def, W("description")))
                \o <<")">>
           ELSE <<>>)
       \o (IF Get(def, W("defaultValue")) # Undef
           THEN <<".", "default", "(">> \o Interpolated(Get(def, W("defaultValue")))
                \o <<")">>
           ELSE <<>>)
       \o (IF Truthy(Get(def, W("nullable"))) THEN <<".", "nullable", "(", ")">> ELSE <<>>)
       \o (IF Truthy(Get(def, W("optional"))) THEN <<".", "optional", "(", ")">> ELSE <<>>)

(***************************************************************************)
(* The extension list read back from a definition                          *)
(* (generateSchemaFromDefinition)                                          *)
(***************************************************************************)
\* typeof v
TypeofValue(v) ==
  CASE v.k \in {"number", "NaN", "Infinity"} -> W("number")
    [] v.k = "string" -> W("string")
    [] v.k = "boolean" -> W("boolean")
    [] v.k = "undefined" -> W("undefined")
    [] v.k = "bigint" -> W("bigint")
    [] OTHER -> W("object")

\* the key of the set seen: `${ns}${extName}` with a namespace, extName without
SeenKey(ns, extName) == IF Truthy(ns) THEN ns.s \o extName ELSE extName

\* the body of the loop for (const extName in exts) on the entries from
\* index i: st holds the list extensions and the set seen
RECURSIVE ProcessEntries(_, _, _, _, _)
ProcessEntries(exts, i, ns, field, st) ==
  IF ~st.ok \/ i > Len(exts.e) THEN st
  ELSE LET extName == exts.e[i].key
           key == SeenKey(ns, extName)
       IN IF key \in st.seen THEN ProcessEntries(exts, i + 1, ns, field, st)
          ELSE IF exts.e[i].val.k \in {"undefined", "null"}
               THEN [ok |-> FALSE, err |-> TypeErr]
          ELSE LET extValue == Get(exts.e[i].val, W("value"))
                   args == IF extValue.k = "array"
                           THEN [j \in 1..Len(extValue.e) |-> TypeofValue(extValue.e[j])]
                           ELSE <<TypeofValue(extValue)>>
               IN ProcessEntries(exts, i + 1, ns, field,
                    [ok |-> TRUE,
                     extensions |-> Append(st.extensions,
                                           [name |-> extName,
                                            allowedOn |-> <<Get(field, W("type"))>>,
                                            args |-> args]),
                     seen |-> st.seen \cup {key}])

\* const process = (exts, ns) => { ... }: nothing for a falsy exts, and an
\* exts that is no object has no enumerable name
Process(exts, ns, field, st) ==
  IF ~st.ok \/ ~Truthy(exts) \/ ~IsObj(exts) THEN st
  ELSE ProcessEntries(exts, 1, ns, field, st)

\* for (const nsName in field.namespaces) process(field.namespaces[nsName], nsName)
RECURSIVE ProcessNamespaces(_, _, _, _)
ProcessNamespaces(nss, i, field, st) ==
  IF ~st.ok \/ ~IsObj(nss) \/ i > Len(nss.e) THEN st
  ELSE ProcessNamespaces(nss, i + 1, field,
                         Process(nss.e[i].val, Str(nss.e[i].key), field, st))

\* the body of the loop for (const fieldName in definition.fields)
RECURSIVE ProcessFields(_, _, _, _)
ProcessFields(fields, i, namespace, st) ==
  IF ~st.ok \/ ~IsObj(fields) \/ i > Len(fields.e) THEN st
  ELSE LET field == fields.e[i].val
       IN IF field.k \in {"undefined", "null"} THEN [ok |-> FALSE, err |-> TypeErr]
          ELSE ProcessFields(fields, i + 1, namespace,
                 IF Truthy(namespace)
                 THEN Process(IF Truthy(Get(field, W("namespaces")))
                              THEN Get(Get(field, W("namespaces")), namespace.s)
                              ELSE Undef,
                              namespace, field, st)
                 ELSE LET st1 == Process(Get(field, W("extensions")), Undef, field, st)
                      IN IF Truthy(Get(field, W("namespaces")))
                         THEN ProcessNamespaces(Get(field, W("namespaces")), 1, field, st1)
                         ELSE st1)

\* the list it returns, or the error it throws
generateSchemaFromDefinition(definition, namespace) ==
  IF ~Truthy(definition) \/ ~Truthy(Get(definition, W("fields"))) THEN Ok(<<>>)
  ELSE LET st == ProcessFields(Get(definition, W("fields")), 1, namespace,
                               [ok |-> TRUE, extensions |-> <<>>, seen |-> {}])
       IN IF st.ok THEN Ok(st.extensions) ELSE Throw(st.err)

(***************************************************************************)
(* The entry point: async parse(...sources).  The callbacks of sources.map *)
(* run synchronously up to their await; everything after an await is a job *)
(* of the microtask queue, run in the order it was enqueued.               *)
(***************************************************************************)
VARIABLES
  this,      \* the parser instance
  sources,   \* the arguments of the call
  pc,        \* where the synchronous part of parse stands
  mapped,    \* how many sources the map callback has been called on
  inner,     \* per source, what the promise of parseWithTimeout settled with
  prom,      \* per source, the promise the map callback returned
  queue,     \* the microtask queue
  all,       \* the promise of Promise.all
  heap,      \* the objects of the definitions
  outcome,   \* what the promise of parse settled with
  before,    \* the input definitions as they were when the merge was called
  second,    \* a second call parse(source) on the same instance
  generated, \* what generateSchemaFromDefinition returned for the definition
  timers,    \* the timers of the calls of parseWithTimeout
  constructed \* what new ZontaxParser(options, registrations) did

vars ==
  <<this, sources, pc, mapped, inner, prom, queue, all, heap, outcome, before, second,
    generated, timers, constructed>>

Pending == [st |-> "pending"]
Fulfilled(v) == [st |-> "fulfilled", v |-> v]
Rejected(e) == [st |-> "rejected", v |-> e]

\* the value parse resolves with
ParseResult(schema, definition) ==
  [st |-> "fulfilled", schema |-> schema, definition |-> definition]

\* ast.body[0]
FirstStatement(ast) == IF ast.body = <<>> THEN NoNode ELSE ast.body[1]

\* a reaction that would wait for the fulfilment of every promise
AllReactionFulfilledOnly(a, p) ==
  IF a.st # "pending" \/ p.st = "rejected" THEN a
  ELSE IF a.remaining = 1 THEN [st |-> "fulfilled", remaining |-> 0, v |-> Undef]
  ELSE [a EXCEPT !.remaining = @ - 1]

\* the reaction of Promise.all to the settling of one of its promises
AllReaction(a, p) ==
  IF a.st # "pending" THEN a
  ELSE IF p.st = "rejected" THEN [st |-> "rejected", remaining |-> a.remaining, v |-> p.v]
  ELSE IF a.remaining = 1 THEN [st |-> "fulfilled", remaining |-> 0, v |-> Undef]
  ELSE [a EXCEPT !.remaining = @ - 1]

\* generateSchemaFromDefinition was not called
NotGenerated == [called |-> FALSE]
\* the instance was constructed before the calls of the model
NotConstructed == [called |-> FALSE]
\* parseWithTimeout was not called and the event loop has run no timers phase
NoTimers == [calls |-> <<>>, late |-> {}, phases |-> 0]

\* no second call yet
NoCall ==
  [pc |-> "none", source |-> Unparsable(<<>>), mapped |-> 0, inner |-> Ok(NoNode),
   prom |-> Pending,
   all |-> [st |-> "pending", remaining |-> 1, v |-> Undef], outcome |-> Pending,
   late |-> FALSE]

\* parse is called: no source gives the empty result at once
Parse ==
  /\ pc = "idle"
  /\ IF Len(sources) = 0
     THEN /\ outcome' = ParseResult(<<>>, EmptyObj)
          /\ pc' = "done"
     ELSE /\ outcome' = outcome
          /\ pc' = "mapping"
  /\ UNCHANGED <<this, sources, generated, timers, constructed, mapped, inner, prom, queue, all, heap, before, second>>

\* the synchronous part of the second call is running
Mapping2 == second.pc = "mapping"

\* the map callback of call number call on its source i, given what
\* validateInput and parseWithTimeout answer
Mapped(call, i, admitted, settled, timed) ==
  /\ IF ~admitted.ok
     THEN /\ IF call = 2
             THEN /\ second' = [second EXCEPT !.mapped = 1,
                                              !.prom = Rejected(admitted.err)]
                  /\ UNCHANGED <<prom, mapped>>
             ELSE /\ prom' = [prom EXCEPT ![i] = Rejected(admitted.err)]
                  /\ mapped' = mapped + 1
                  /\ UNCHANGED second
          /\ UNCHANGED <<inner, queue>>
     ELSE /\ queue' = Append(queue, [job |-> "cont", i |-> i, call |-> call])
          /\ IF call = 2
             THEN /\ second' = [second EXCEPT !.mapped = 1, !.inner = settled]
                  /\ UNCHANGED <<inner, prom, mapped>>
             ELSE /\ inner' = [inner EXCEPT ![i] = settled]
                  /\ mapped' = mapped + 1
                  /\ UNCHANGED <<prom, second>>
  /\ timers' = IF admitted.ok THEN [timers EXCEPT !.calls = Append(@, timed)] ELSE timers
  /\ UNCHANGED <<this, sources, generated, constructed, pc, all, heap, outcome, before>>

\* the synchronous part of the map callback on the next source: validateInput,
\* then the executor of parseWithTimeout, then the await
MapCallback ==
  /\ IF Mapping2 THEN second.mapped = 0 ELSE (pc = "mapping" /\ mapped < Len(sources))
  /\ LET i == IF Mapping2 THEN 1 ELSE mapped + 1
         source == IF Mapping2 THEN second.source ELSE sources[i]
     IN \E tooLong \in BOOLEAN : \E node \in BOOLEAN :
          Mapped(IF Mapping2 THEN 2 ELSE 1, i, validateInput(source.text),
                 parseWithTimeout(source, tooLong),
                 parseWithTimeoutTimers(source, tooLong, node))

\* Promise.all subscribes to the promises (a promise already rejected gets its
\* reaction enqueued at once) and parse awaits the result
PromiseAll ==
  /\ IF Mapping2 THEN second.mapped = 1 ELSE (pc = "mapping" /\ mapped = Len(sources))
  /\ IF Mapping2
     THEN /\ queue' = IF second.prom.st # "pending"
                      THEN Append(queue, [job |-> "react", i |-> 1, call |-> 2])
                      ELSE queue
          /\ second' = [second EXCEPT !.pc = "awaiting"]
          /\ UNCHANGED <<all, pc>>
     ELSE /\ LET settled == SelectSeq([i \in 1..Len(sources) |-> i],
                                      LAMBDA i : prom[i].st # "pending")
             IN queue' = queue \o [j \in 1..Len(settled) |->
                                     [job |-> "react", i |-> settled[j], call |-> 1]]
          /\ all' = [st |-> "pending", remaining |-> Len(sources), v |-> Undef]
          /\ pc' = "awaiting"
          /\ UNCHANGED second
  /\ UNCHANGED <<this, sources, generated, timers, constructed, mapped, inner, prom, heap, outcome, before>>

\* the rest of the map callback of job j, given what parseWithTimeout settled
\* with and what buildDefinition returns
Built(j, settled, r) ==
  LET a == Alloc(heap, r.val)
      p == IF ~settled.ok THEN Rejected(settled.err)
           ELSE IF ~r.ok THEN Rejected(r.err)
           ELSE Fulfilled(a.val)
  IN /\ IF j.call = 2
        THEN second' = [second EXCEPT !.prom = p] /\ prom' = prom
        ELSE prom' = [prom EXCEPT ![j.i] = p] /\ second' = second
     /\ this' = IF settled.ok THEN r.this ELSE this
     /\ heap' = IF p.st = "fulfilled" THEN a.h ELSE heap
     /\ queue' = Append(Tail(queue), [job |-> "react", i |-> j.i, call |-> j.call])
     /\ UNCHANGED <<sources, generated, timers, constructed, pc, mapped, inner, all, outcome, before>>

\* a map callback resumes after its await: buildDefinition(ast.body[0])
RunCont ==
  /\ pc = "awaiting"
  /\ ~Mapping2
  /\ queue # <<>>
  /\ Head(queue).job = "cont"
  /\ LET settled == IF Head(queue).call = 2 THEN second.inner ELSE inner[Head(queue).i]
     IN Built(Head(queue), settled,
              buildDefinition(FirstStatement(settled.val), <<>>, 0, this))

\* Promise.all reacts to one promise; when that settles it, parse is resumed
RunReact ==
  /\ pc = "awaiting"
  /\ ~Mapping2
  /\ queue # <<>>
  /\ Head(queue).job = "react"
  /\ LET j == Head(queue)
         a == IF j.call = 2 THEN second.all ELSE all
         p == IF j.call = 2 THEN second.prom ELSE prom[j.i]
         after == AllReaction(a, p)
     IN /\ IF j.call = 2
           THEN second' = [second EXCEPT !.all = after] /\ all' = all
           ELSE all' = after /\ second' = second
        /\ queue' = IF a.st = "pending" /\ after.st # "pending"
                    THEN Append(Tail(queue), [job |-> "resume", i |-> 0, call |-> j.call])
                    ELSE Tail(queue)
  /\ UNCHANGED <<this, sources, generated, timers, constructed, pc, mapped, inner, prom, heap, outcome, before>>

\* what parse settles with, given what Promise.all settled with and what the
\* merge returns
Settled(a, r, mergedDefinition) ==
  IF a.st = "rejected" THEN Rejected(a.v)
  ELSE IF r.ok THEN ParseResult(generateSchemaString(mergedDefinition), mergedDefinition)
  ELSE Rejected(r.err)

\* the rest of parse for job j, given the definitions and what the merge returns
Merged(j, a, definitions, r) ==
  /\ heap' = IF a.st = "rejected" THEN heap ELSE r.h
  /\ IF j.call = 2
     THEN /\ second' = [second EXCEPT !.pc = "done",
                                      !.outcome = Settled(a, r, Deref(r.h, r.val))]
          /\ UNCHANGED <<outcome, before>>
     ELSE /\ outcome' = Settled(a, r, Deref(r.h, r.val))
          /\ before' = IF a.st = "rejected" THEN before
                       ELSE [i \in 1..Len(sources) |-> Deref(heap, definitions[i])]
          /\ second' = second
  /\ queue' = Tail(queue)
  /\ UNCHANGED <<this, sources, generated, timers, constructed, pc, mapped, inner, prom, all>>

\* parse resumes after its await: the rejection is thrown on, or the
\* definitions are merged and the schema string generated
Resume ==
  /\ pc = "awaiting"
  /\ ~Mapping2
  /\ queue # <<>>
  /\ Head(queue).job = "resume"
  /\ LET definitions == IF Head(queue).call = 2 THEN <<second.prom.v>>
                        ELSE [i \in 1..Len(sources) |-> prom[i].v]
     IN Merged(Head(queue), IF Head(queue).call = 2 THEN second.all ELSE all,
               definitions, deepMergeDefinitions(heap, definitions, <<>>))

Next == Parse \/ MapCallback \/ PromiseAll \/ RunCont \/ RunReact \/ Resume

\* the state in which parse(...srcs) is about to be called on instance parser
Start(parser, srcs) ==
  /\ this = parser
  /\ sources = srcs
  /\ pc = "idle"
  /\ mapped = 0
  /\ inner = [i \in 1..Len(srcs) |-> Ok(NoNode)]
  /\ prom = [i \in 1..Len(srcs) |-> Pending]
  /\ queue = <<>>
  /\ all = [st |-> "pending", remaining |-> Len(srcs), v |-> Undef]
  /\ heap = <<>>
  /\ outcome = Pending
  /\ before = <<>>
  /\ second = NoCall
  /\ generated = NotGenerated
  /\ timers = NoTimers
  /\ constructed = NotConstructed

\* what parse(source) settles with when it runs alone and the parser answers
\* in time: every step of the pipeline on the one source
ParseAlone(parser, source) ==
  LET admitted == validateInput(source.text)
      parsed == parseWithTimeout(source, FALSE)
      r == buildDefinition(FirstStatement(parsed.val), <<>>, 0, parser)
      a == Alloc(<<>>, r.val)
      m == deepMergeDefinitions(a.h, <<a.val>>, <<>>)
      mergedDefinition == Deref(m.h, m.val)
  IN IF ~admitted.ok THEN Rejected(admitted.err)
     ELSE IF ~parsed.ok THEN Rejected(parsed.err)
     ELSE IF ~r.ok THEN Rejected(r.err)
     ELSE IF ~m.ok THEN Rejected(m.err)
     ELSE ParseResult(generateSchemaString(mergedDefinition), mergedDefinition)

(***************************************************************************)
(* The calls the model explores: parser instances and source texts         *)
(***************************************************************************)
\* 'user.profile.*' and 'user.name'
UserProfileStar == <<"user", ".", "profile", ".", "*">>
UserName == <<"user", ".", "name">>

\* no extension; a global and two path-restricted namespaced extensions;
\* extensions registered under the names of built-in methods
RegNone == <<>>
RegLabel ==
  <<[namespace |-> <<>>, extensions |-> <<Ext(W("label"), Undef)>>],
    [namespace |-> W("ui"),
     extensions |-> <<Ext(W("hint"), Arr(<<Str(UserProfileStar)>>)),
                      Ext(W("exact"), Arr(<<Str(UserName)>>))>>]>>
RegShadow ==
  <<[namespace |-> <<>>,
     extensions |-> <<Ext(W("min"), Undef), Ext(W("optional"), Undef),
                      Ext(W("string"), Undef)>>]>>
Parsers ==
  {ZontaxParser(mode, reg) : mode \in {"strict", "loose"},
                             reg \in {RegNone, RegLabel, RegShadow}}

One == Lit(Num(1))
Two == Lit(Num(2))
OnePlusTwo == Binary("+", One, Two)
Foo == Id(W("foo"))
ZString == M(Z, W("string"), <<>>)
ZNumber == M(Z, W("number"), <<>>)

\* what a chain may start from
Receivers == {Z, Foo, OnePlusTwo, This}
\* the names called
MethodNames ==
  {W("string"), W("number"), W("min"), W("optional"), W("label"), W("foo"),
   <<"ui", "$", "foo">>, <<"ui", "$", "min">>}
\* the argument lists
ArgumentLists ==
  {<<>>, <<One>>, <<Lit(Str(W("x")))>>, <<Lit(Bool(TRUE))>>, <<Lit(Null)>>,
   <<Lit(RegExpV)>>, <<Lit(BigIntV(1))>>,
   <<Id(W("x"))>>, <<Id(W("undefined"))>>, <<Id(W("NaN"))>>, <<Id(W("Infinity"))>>,
   <<Unary("-", One)>>, <<Unary("!", Lit(Bool(TRUE)))>>, <<Unary("-", Id(W("x")))>>,
   <<OnePlusTwo>>, <<Call(Foo, <<>>)>>, <<Member(Foo, Id(W("b")))>>,
   <<Member(Z, Id(W("string")))>>, <<M(Z, W("string"), <<>>)>>,
   <<M(Foo, W("string"), <<>>)>>,
   <<ArrE(<<One, Two>>)>>, <<ArrE(<<Id(W("x"))>>)>>,
   <<ObjE(<<Prop(Id(W("a")), One)>>)>>, <<One, Two>>,
   <<M(ZString, W("label"), <<Lit(Str(W("x")))>>)>>,
   <<M(ZString, <<"ui", "$", "tip">>, <<One>>)>>}

\* Z.object({ k1: Z.object({ k2: ... leaf }) }) for the keys of path
RECURSIVE NestAt(_, _)
NestAt(path, leaf) ==
  IF path = <<>> THEN leaf
  ELSE M(Z, W("object"), <<ObjE(<<Prop(Id(Head(path)), NestAt(Tail(path), leaf))>>)>>)

\* the paths a path-restricted extension is called at (the keys profile2 and
\* name2 are the atoms profile, 2 and name, 2: a name that has another name as
\* a prefix of its characters has it as a prefix of its atoms)
HintPaths ==
  {<<W("user"), W("profile"), W("bio")>>,
   <<W("user"), <<"profile", "2">>, W("bio")>>,
   <<W("user"), W("profile"), W("bio"), W("extra")>>,
   <<W("other"), W("profile"), W("bio")>>,
   <<W("user"), W("profile")>>,
   <<W("user"), W("name")>>,
   <<W("user"), <<"name", "2">>>>,
   <<W("user")>>}

\* one-call chains on every receiver, two-call chains on Z with every argument
\* list, path-restricted calls, and the other shapes of a first statement
OneCallChains == {M(r, m, <<>>) : r \in Receivers, m \in MethodNames}
TwoCallChains ==
  {M(M(Z, t, <<>>), m, a) : t \in {W("string"), W("number")},
                            m \in {W("min"), W("label"), W("foo"), W("optional")},
                            a \in ArgumentLists}
PathChains ==
  {NestAt(p, M(M(Z, W("string"), <<>>), <<"ui", "$", e>>, <<>>)) :
     p \in HintPaths, e \in {"hint", "exact"}}
OtherExpressions ==
  {Call(M(Z, W("foo"), <<>>), <<>>), Call(Foo, <<>>), Call(Foo, <<OnePlusTwo>>),
   Member(Z, Id(W("string"))), One, Lit(Str(W("x"))), Foo,
   ObjE(<<Prop(Id(W("a")), M(Z, W("string"), <<>>))>>),
   ArrE(<<M(Z, W("string"), <<>>)>>),
   M(Z, W("enum"), <<>>), M(Z, W("enum"), <<ArrE(<<Lit(Str(W("a")))>>)>>),
   M(Z, W("fetch"), <<>>),
   Chain(Member(Z, Id(W("string")))),
   M(Z, W("object"),
     <<ObjE(<<[Prop(OnePlusTwo, M(Z, W("string"), <<>>)) EXCEPT !.computed = TRUE]>>)>>)}
\* receiver.m1(a1).m2(a2)... for the calls cs
RECURSIVE ChainOf(_, _)
ChainOf(receiver, cs) ==
  IF cs = <<>> THEN receiver
  ELSE ChainOf(M(receiver, Head(cs).name, Head(cs).args), Tail(cs))
\* validations and modifiers, called on Z.number() in every order
Modifiers ==
  {[name |-> W("min"), args |-> <<Lit(Num(0))>>],
   [name |-> W("max"), args |-> <<Lit(Num(100))>>],
   [name |-> W("min"), args |-> <<Two>>],
   [name |-> W("describe"), args |-> <<Lit(Str(W("d")))>>],
   [name |-> W("default"), args |-> <<One>>],
   [name |-> W("nullable"), args |-> <<>>],
   [name |-> W("optional"), args |-> <<>>]}
ModifierChains ==
  {ChainOf(ZNumber, <<a, b>>) : a \in Modifiers, b \in Modifiers}
  \cup {ChainOf(ZNumber, <<a, b, c>>) : a \in Modifiers, b \in Modifiers, c \in Modifiers}
\* chains in which the type is assigned more than once: two type calls, a type
\* call and a constructor call, and a call on the sentinel Z.typeName
TypeChains ==
  {M(M(Z, W("string"), <<>>), W("number"), <<>>),
   M(M(Z, W("number"), <<>>), W("string"), <<>>),
   M(M(Z, W("string"), <<>>), W("array"), <<ZNumber>>),
   M(Member(Z, Id(W("foo"))), W("string"), <<>>),
   M(M(Member(Z, Id(W("foo"))), W("string"), <<>>), W("min"), <<One>>)}
\* the field user.name whose value holds the call Z.string().ui$exact() inside
\* the argument of array, record, tuple, union and enum
ZStringExact == M(ZString, <<"ui", "$", "exact">>, <<>>)
InsideUserName ==
  {NestAt(<<W("user"), W("name")>>, v) :
     v \in {M(Z, W("array"), <<ZStringExact>>),
            M(Z, W("record"), <<ZString, ZStringExact>>),
            M(Z, W("tuple"), <<ArrE(<<ZStringExact>>)>>),
            M(Z, W("union"), <<ArrE(<<ZStringExact, ZNumber>>)>>),
            M(Z, W("enum"), <<ArrE(<<ZStringExact>>)>>)}}
Expressions ==
  OneCallChains \cup TwoCallChains \cup PathChains \cup OtherExpressions
  \cup ModifierChains \cup TypeChains \cup InsideUserName

\* what may follow the first statement
SecondStatements ==
  {Stmt(M(Z, W("foo"), <<>>)), Stmt(Assign(Id(W("x")), One)), Stmt(Call(Foo, <<>>)),
   Stmt(M(Z, W("number"), <<>>))}

\* texts that are admitted and are no program
SyntaxErrors == {<<"Z", ".", "string", "(", ")", ".">>, <<"Z", ".", "string", "(", ")", "(">>}
\* texts that are not admitted
NotAdmitted == {<<>>, <<" ">>, <<"Z", ".", "string", "(">>, <<"Z", "#">>}

\* n nested array literals around 1, and n parentheses around a text
RECURSIVE NestedArrays(_)
NestedArrays(n) == IF n = 0 THEN One ELSE ArrE(<<NestedArrays(n - 1)>>)
Parenthesized(n, text) == [i \in 1..n |-> "("] \o text \o [i \in 1..n |-> ")"]
\* sources nested to the deepest admitted level and one level deeper: array
\* literals, a parenthesized literal, a parenthesized argument of the first
\* call on Z, and a parenthesized argument of a call after Z.string()
NestingLevels == {maxNestingDepth, maxNestingDepth + 1}
DeepSources ==
  {Src(Program(<<Stmt(NestedArrays(n))>>)) : n \in NestingLevels}
  \cup {[text |-> Parenthesized(n, <<"1">>), ast |-> Program(<<Stmt(One)>>)] :
          n \in NestingLevels}
  \cup {[text |-> <<"Z", ".", "min", "(">> \o Parenthesized(n - 1, <<"1">>) \o <<")">>,
          ast |-> Program(<<Stmt(M(Z, W("min"), <<One>>))>>)] :
          n \in NestingLevels}
  \cup {[text |-> <<"Z", ".", "string", "(", ")", ".", "min", "(">>
                  \o Parenthesized(n - 1, <<"1">>) \o <<")">>,
          ast |-> Program(<<Stmt(M(ZString, W("min"), <<One>>))>>)] :
          n \in NestingLevels}

\* sources that differ only in the characters of a quoted string argument:
\* describe("...") in a chain and in the field of an object
StringContents ==
  {W("x"), <<"/", "/">>, <<"a", "/", "/", "b">>, <<"/", "*">>, <<"(">>, <<"}">>}
StringFrames == {"chain", "field"}
StringArgument(frame, content) ==
  LET described == M(ZString, W("describe"), <<Lit(Str(content))>>)
  IN Src(Program(<<Stmt(IF frame = "chain" THEN described
                        ELSE NestAt(<<W("a")>>, described))>>))
StringSources ==
  {StringArgument(frame, content) : frame \in StringFrames, content \in StringContents}

SingleSources ==
  {Src(Program(<<Stmt(e)>>)) : e \in Expressions}
  \cup DeepSources \cup StringSources
  \cup {Src(Program(<<Stmt(M(Z, W("string"), <<>>)), s>>)) : s \in SecondStatements}
  \cup {Unparsable(t) : t \in SyntaxErrors \cup NotAdmitted}

\* parse() and parse(source) on every parser instance
Init == \E parser \in Parsers :
          \E srcs \in {<<>>} \cup {<<s>> : s \in SingleSources} : Start(parser, srcs)

Spec == Init /\ [][Next]_vars

(***************************************************************************)
(* The calls with several sources                                          *)
(***************************************************************************)
MaxSources == 3

\* Z.string() ... : the definition of one field; the rich one has a validation,
\* a flag, a namespaced and a global extension
RichLeaf ==
  M(M(M(M(M(Z, W("string"), <<>>), W("email"), <<>>), W("optional"), <<>>),
      <<"ui", "$", "tip">>, <<One>>), W("label"), <<Lit(Str(W("x")))>>)
\* the same extensions with other values, and further entries beside them
OtherRichLeaf ==
  M(M(M(M(M(Z, W("string"), <<>>), <<"ui", "$", "tip">>, <<Two>>),
        <<"ui", "$", "note">>, <<One>>), W("label"), <<Lit(Str(W("y")))>>),
    W("flag"), <<>>)
\* Z.optional(): a definition without a type
Typeless == M(Z, W("optional"), <<>>)
Leaves ==
  {M(Z, W("string"), <<>>), M(Z, W("number"), <<>>), OtherRichLeaf, Typeless,
   M(M(Z, W("string"), <<>>), W("min"), <<One>>),
   M(M(Z, W("string"), <<>>), W("min"), <<Two>>),
   M(M(Z, W("string"), <<>>), W("min"), <<ArrE(<<One>>)>>),
   RichLeaf}
\* where the field stands: the schema itself, a field, a field of a field
FieldPaths == {<<>>, <<W("a")>>, <<W("u"), W("a")>>}
\* sources that fail: not admitted, no program, refused by the audit, refused
\* by the builder
FailingSources ==
  {Unparsable(<<"Z", "#">>), Unparsable(<<"Z", ".", "string", "(", ")", ".">>),
   Src(Program(<<Stmt(Chain(Member(Z, Id(W("string")))))>>)),
   Src(Program(<<Stmt(M(M(Z, W("string"), <<>>), W("min"), <<Id(W("x"))>>))>>))}
\* composite definitions of one kind that differ in a child: the element of an
\* array, the key or the value of a record, the items of a tuple, the options
\* of a union, the values of an enum, the value of a literal
Composites ==
  {M(Z, W("array"), <<ZString>>), M(Z, W("array"), <<ZNumber>>),
   M(Z, W("record"), <<ZString, ZNumber>>), M(Z, W("record"), <<ZString, ZString>>),
   M(Z, W("record"), <<ZNumber, ZNumber>>),
   M(Z, W("tuple"), <<ArrE(<<ZString>>)>>), M(Z, W("tuple"), <<ArrE(<<ZNumber>>)>>),
   M(Z, W("union"), <<ArrE(<<ZString, ZNumber>>)>>),
   M(Z, W("union"), <<ArrE(<<ZString, M(Z, W("boolean"), <<>>)>>)>>),
   M(Z, W("enum"), <<ArrE(<<Lit(Str(W("a")))>>)>>),
   M(Z, W("enum"), <<ArrE(<<Lit(Str(W("b")))>>)>>),
   M(Z, W("literal"), <<One>>), M(Z, W("literal"), <<Two>>)}
MergeSources ==
  {Src(Program(<<Stmt(NestAt(p, l))>>)) : p \in FieldPaths, l \in Leaves}
  \cup {Src(Program(<<Stmt(NestAt(<<W("a")>>, c))>>)) : c \in Composites}
  \cup FailingSources
FewSources ==
  {Src(Program(<<Stmt(NestAt(<<W("a")>>, M(Z, W("string"), <<>>)))>>)),
   Src(Program(<<Stmt(NestAt(<<W("a")>>, M(Z, W("number"), <<>>)))>>)),
   Src(Program(<<Stmt(NestAt(<<W("u"), W("a")>>, M(Z, W("string"), <<>>)))>>)),
   Src(Program(<<Stmt(NestAt(<<W("u"), W("a")>>, M(Z, W("number"), <<>>)))>>)),
   Src(Program(<<Stmt(NestAt(<<W("a")>>, RichLeaf))>>)),
   Src(Program(<<Stmt(NestAt(<<W("a")>>, OtherRichLeaf))>>)),
   Src(Program(<<Stmt(NestAt(<<W("a")>>, Typeless))>>)),
   Src(Program(<<Stmt(NestAt(<<W("a")>>,
                             M(M(Z, W("string"), <<>>), W("min"), <<ArrE(<<One>>)>>)))>>)),
   Src(Program(<<Stmt(M(M(Z, W("string"), <<>>), W("min"), <<Id(W("x"))>>))>>)),
   Unparsable(<<"Z", "#">>)}

\* the sources of the calls with more than three sources
FewestSources ==
  {Src(Program(<<Stmt(NestAt(<<W("a")>>, M(Z, W("string"), <<>>)))>>)),
   Src(Program(<<Stmt(NestAt(<<W("a")>>, M(Z, W("number"), <<>>)))>>)),
   Src(Program(<<Stmt(NestAt(<<W("a")>>, RichLeaf))>>)),
   Src(Program(<<Stmt(NestAt(<<W("a")>>, OtherRichLeaf))>>)),
   Unparsable(<<"Z", "#">>)}

\* parse(s1, s2) on all pairs of MergeSources, parse(s1, s2, s3) on
\* FewSources, parse(s1, s2, s3, s4, ...) on FewestSources, on a loose-mode
\* instance
InitMerge ==
  \E n \in 2..MaxSources :
    \E srcs \in [1..n -> IF n = 2 THEN MergeSources
                         ELSE IF n = 3 THEN FewSources ELSE FewestSources] :
      Start(ZontaxParser("loose", RegLabel), srcs)

SpecMerge == InitMerge /\ [][Next]_vars

(***************************************************************************)
(* The calls on an instance whose registry holds RegExp matchers           *)
(***************************************************************************)
\* the extension ui$exact allowed on /^user\.name$/ with the given flags, and
\* the global extension dotted allowed on /\./ with them
RegRx(flags) ==
  <<[namespace |-> W("ui"),
     extensions |-> <<Ext(W("exact"), Arr(<<RegExpM(TRUE, UserName, TRUE, flags)>>))>>],
    [namespace |-> <<>>,
     extensions |-> <<Ext(W("dotted"), Arr(<<RegExpM(FALSE, <<".">>, FALSE, flags)>>))>>]>>
\* the extension any allowed on /name/ with the given flags
RegRxOpen(flags) ==
  <<[namespace |-> <<>>,
     extensions |-> <<Ext(W("any"), Arr(<<RegExpM(FALSE, W("name"), FALSE, flags)>>))>>]>>
FlagSets == {{}, {"i"}, {"g"}, {"y"}, {"g", "i"}}
\* the instances the constructor returns
RxParsers ==
  {ZontaxParser(mode, reg) :
     mode \in {"strict", "loose"},
     reg \in {r \in {RegLabel} \cup {RegRx(f) : f \in FlagSets}
                              \cup {RegRxOpen(f) : f \in FlagSets} : Constructs(r)}}
CallSources ==
  {Src(Program(<<Stmt(e)>>)) :
     e \in {ZString,
            NestAt(<<W("user"), W("name")>>, M(ZString, <<"ui", "$", "exact">>, <<>>)),
            NestAt(<<W("user"), W("name")>>, M(ZString, W("dotted"), <<>>)),
            NestAt(<<W("user"), W("profile"), W("bio")>>, M(ZString, W("dotted"), <<>>)),
            NestAt(<<W("user")>>, M(ZString, W("dotted"), <<>>)),
            NestAt(<<W("user"), W("name")>>, M(ZString, W("label"), <<One>>)),
            M(M(ZString, W("min"), <<Id(W("x"))>>), W("max"), <<One>>)}}
  \cup {Unparsable(<<"Z", "#">>), Unparsable(<<"Z", ".", "string", "(", ")", ".">>)}
\* the sources of the second call
SecondSources(first) == CallSources

(***************************************************************************)
(* A second call parse(source) on the same instance.  It may start as soon *)
(* as the synchronous part of the first call has returned: before any job  *)
(* of the first call has run, between two of its jobs, or after it has     *)
(* settled.  The two calls share the instance, the heap and the microtask  *)
(* queue; no job runs during the synchronous part of a call.               *)
(***************************************************************************)
\* parse(source) is called again; late tells that the first call had settled
CallAgain ==
  /\ second.pc = "none"
  /\ pc = "awaiting"
  /\ \E source \in SecondSources(sources) :
       second' = [second EXCEPT !.pc = "mapping", !.source = source,
                                !.late = outcome.st # "pending"]
  /\ UNCHANGED <<this, sources, generated, timers, constructed, pc, mapped, inner, prom, queue, all, heap, outcome,
                 before>>

NextCalls == Next \/ CallAgain

\* parse(source) on every instance, followed by a second call
InitCalls ==
  \E parser \in RxParsers : \E source \in CallSources : Start(parser, <<source>>)

SpecCalls == InitCalls /\ [][NextCalls]_vars

(***************************************************************************)
(* generateSchemaFromDefinition on the definition a loose-mode parse       *)
(* returned: an object whose fields carry calls of unregistered names.     *)
(* The names uitip, uixtip, xtip and uix are cut into the atoms ui, x and  *)
(* tip, so that equal strings are equal sequences of atoms.                *)
(***************************************************************************)
Invocations ==
  {[name |-> <<"ui", "$", "tip">>, args |-> <<One>>],
   [name |-> <<"ui", "tip">>, args |-> <<Lit(Str(W("x")))>>],
   [name |-> <<"tip">>, args |-> <<One>>],
   [name |-> <<"ui", "$", "x", "tip">>, args |-> <<One>>],
   [name |-> <<"ui", "x", "$", "tip">>, args |-> <<Two>>],
   [name |-> <<"ui", "$", "note">>, args |-> <<One, Lit(Str(W("a")))>>]}
FieldChains(receiver, most) ==
  {ChainOf(receiver, <<a>>) : a \in Invocations}
  \cup (IF most < 2 THEN {receiver}
        ELSE {ChainOf(receiver, <<p[1], p[2]>>) :
                p \in {q \in Invocations \X Invocations : q[1] # q[2]}})
GenerateSources ==
  {Src(Program(<<Stmt(M(Z, W("object"),
                        <<ObjE(<<Prop(Id(W("a")), fa), Prop(Id(W("b")), fb)>>)>>))>>)) :
     fa \in FieldChains(ZString, 2), fb \in FieldChains(ZNumber, 1)}
\* the argument namespace: none, ui, uix
GenerateNamespaces == {Undef, Str(<<"ui">>), Str(<<"ui", "x">>)}

\* ZontaxParser.generateSchemaFromDefinition(definition, namespace) on the
\* definition parse resolved with
Generate ==
  /\ outcome.st = "fulfilled"
  /\ ~generated.called
  /\ \E namespace \in GenerateNamespaces :
       generated' = [called |-> TRUE, namespace |-> namespace,
                     result |-> generateSchemaFromDefinition(outcome.definition,
                                                             namespace)]
  /\ UNCHANGED <<this, sources, pc, mapped, inner, prom, queue, all, heap, outcome,
                 before, second, timers, constructed>>

NextGenerate == Next \/ Generate

InitGenerate ==
  \E source \in GenerateSources : Start(ZontaxParser("loose", RegNone), <<source>>)

SpecGenerate == InitGenerate /\ [][NextGenerate]_vars

(***************************************************************************)
(* parse on the schema string an earlier parse returned.  acorn.parse      *)
(* reads a schema string as the tree that has it as its text: a chain of   *)
(* calls on z.number().                                                    *)
(***************************************************************************)
MaxSchemaCalls == 3
zNumber == M(Id(W("z")), W("number"), <<>>)
RECURSIVE ModifierLists(_)
ModifierLists(n) ==
  IF n = 0 THEN {<<>>}
  ELSE ModifierLists(n - 1)
       \cup {Append(cs, m) : cs \in {l \in ModifierLists(n - 1) : Len(l) = n - 1},
                             m \in Modifiers}
SchemaTrees == {ChainOf(zNumber, cs) : cs \in ModifierLists(MaxSchemaCalls)}
\* the sources that have the text schema
SchemaSources(schema) ==
  {src \in {Src(Program(<<Stmt(t)>>)) : t \in SchemaTrees} : src.text = schema}
\* chains of built-in methods on Z.number()
BuiltinSources ==
  {Src(Program(<<Stmt(ChainOf(ZNumber, cs))>>)) : cs \in ModifierLists(MaxSchemaCalls)}

\* parse(schema) with the schema string the first call resolved with
ParseSchema ==
  /\ outcome.st = "fulfilled"
  /\ second.pc = "none"
  /\ \E source \in SchemaSources(outcome.schema) :
       second' = [second EXCEPT !.pc = "mapping", !.source = source, !.late = TRUE]
  /\ UNCHANGED <<this, sources, generated, timers, constructed, pc, mapped, inner, prom, queue, all, heap,
                 outcome, before>>

NextSchema == Next \/ ParseSchema

InitSchema ==
  \E source \in BuiltinSources : Start(ZontaxParser("strict", RegNone), <<source>>)

SpecSchema == InitSchema /\ [][NextSchema]_vars

(***************************************************************************)
(* The timers phase of the event loop.  A timer callback is a macrotask:   *)
(* it runs only when the synchronous part of parse has returned and the    *)
(* microtask queue is empty.  The phase runs the callback of every timer   *)
(* that is still active: the callback of the timeout timer calls reject,   *)
(* the callback of the interval reads the memory usage.                    *)
(***************************************************************************)
MaxPhases == 2
TimersPhase ==
  /\ pc \in {"awaiting", "done"}
  /\ ~Mapping2
  /\ queue = <<>>
  /\ timers.phases < MaxPhases
  /\ timers' =
       [calls |-> [k \in 1..Len(timers.calls) |->
                     [active |-> clearTimeout(timers.calls[k].active),
                      settles |-> timers.calls[k].settles
                                  + (IF "timeout" \in timers.calls[k].active THEN 1 ELSE 0)]],
        late |-> timers.late
                 \cup {c \in (1..Len(timers.calls)) \X {"timeout", "memoryCheck"} :
                         c[2] \in timers.calls[c[1]].active},
        phases |-> timers.phases + 1]
  /\ UNCHANGED <<this, sources, pc, mapped, inner, prom, queue, all, heap, outcome,
                 before, second, generated, constructed>>

NextTimers == Next \/ TimersPhase

SpecTimers == Init /\ [][NextTimers]_vars

(***************************************************************************)
(* The constructor: new ZontaxParser({mode}, registrations) on             *)
(* registrations whose extension dotted is allowed on one RegExp matcher,  *)
(* then parse(source) on the instance it returned.                         *)
(***************************************************************************)
Repeated(a, n) == [i \in 1..n |-> a]
\* a score of 99 and of 102 when unanchored: 33 and 34 escaped dots
DotRuns == {Repeated(".", n) : n \in {1, 33, 34}}
\* a source at the limit on the length and one character over it
HyphenRuns == {Repeated("-", n) : n \in {MaxPatternLength, MaxPatternLength + 1}}
RegisterBodies == {UserName, W("name")} \cup DotRuns \cup HyphenRuns
RegisterMatchers ==
  {RegExpM(anchorStart, body, anchorEnd, flags) :
     anchorStart \in BOOLEAN, body \in RegisterBodies, anchorEnd \in BOOLEAN,
     flags \in {{}, {"g", "i"}}}
RegisterRegistrations ==
  {<<[namespace |-> <<>>, extensions |-> <<Ext(W("dotted"), Arr(<<matcher>>))>>]>> :
     matcher \in RegisterMatchers}

\* new ZontaxParser({mode: this.mode}, registrations)
New ==
  /\ pc = "new"
  /\ \E registrations \in RegisterRegistrations :
       LET made == NewZontaxParser(this.mode, registrations)
       IN /\ constructed' = [called |-> TRUE, registrations |-> registrations,
                             ok |-> made.ok,
                             err |-> IF made.ok THEN Undef ELSE made.err]
          /\ this' = IF made.ok THEN made.val ELSE this
          /\ pc' = IF made.ok THEN "idle" ELSE "thrown"
  /\ UNCHANGED <<sources, mapped, inner, prom, queue, all, heap, outcome, before, second,
                 generated, timers>>

NextRegister == Next \/ New

\* the constructor is about to be called; source is what the caller will parse
InitRegister ==
  \E mode \in {"strict", "loose"} : \E source \in CallSources :
    /\ this = ZontaxParser(mode, <<>>)
    /\ sources = <<source>>
    /\ pc = "new"
    /\ mapped = 0
    /\ inner = <<Ok(NoNode)>>
    /\ prom = <<Pending>>
    /\ queue = <<>>
    /\ all = [st |-> "pending", remaining |-> 1, v |-> Undef]
    /\ heap = <<>>
    /\ outcome = Pending
    /\ before = <<>>
    /\ second = NoCall
    /\ generated = NotGenerated
    /\ timers = NoTimers
    /\ constructed = NotConstructed

SpecRegister == InitRegister /\ [][NextRegister]_vars

(***************************************************************************)
(* Vocabulary of the properties                                            *)
(***************************************************************************)
\* parse was called on one source, and its promise has settled
Single == Len(sources) = 1
Accepted == outcome.st = "fulfilled"
Refused == outcome.st = "rejected"
\* the tree of the one source (no tree for a text that is no program)
Tree == sources[1].ast

\* the calls of a method by its name, anywhere in a tree
MethodCalls(ast) ==
  {n \in Nodes(ast) : /\ n.type = "CallExpression"
                      /\ n.callee.type = "MemberExpression"
                      /\ ~n.callee.computed
                      /\ n.callee.property.type = "Identifier"}

\* the namespace (<<>> for none) and the plain name of a called name
NamespaceOf(name) == IF Includes(name, "$") THEN Split(name, "$")[1] ELSE <<>>
PlainNameOf(name) == IF Includes(name, "$") THEN Split(name, "$")[2] ELSE name

\* an extension is registered for the called name, in its namespace or globally
IsRegistered(parser, name) ==
  IF NamespaceOf(name) # <<>>
  THEN /\ MapHas(parser.namespacedExtensions, NamespaceOf(name))
       /\ MapHas(parser.namespacedExtensions[NamespaceOf(name)], PlainNameOf(name))
  ELSE MapHas(parser.globalExtensions, PlainNameOf(name))
IsBuiltin(name) == name \in KNOWN_ZOD_METHODS
Unrecognised(parser, name) == ~IsRegistered(parser, name) /\ ~IsBuiltin(name)

\* every value inside a value (the value included)
RECURSIVE Parts(_)
Parts(v) ==
  {v} \cup (IF v.k = "object" THEN UNION {Parts(v.e[i].val) : i \in 1..Len(v.e)}
            ELSE IF v.k = "array" THEN UNION {Parts(v.e[i]) : i \in 1..Len(v.e)}
            ELSE {})

\* definition d records the called name under extensions or namespaces
RecordedAt(d, name) ==
  IF NamespaceOf(name) # <<>>
  THEN HasKey(Get(Get(d, W("namespaces")), NamespaceOf(name)), PlainNameOf(name))
  ELSE HasKey(Get(d, W("extensions")), PlainNameOf(name))
Recorded(definition, name) == \E d \in Parts(definition) : RecordedAt(d, name)

\* what a chain of calls and member accesses starts from
RECURSIVE Root(_)
Root(n) ==
  CASE n.type = "CallExpression" -> Root(n.callee)
    [] n.type = "MemberExpression" -> Root(n.object)
    [] OTHER -> n

(***************************************************************************)
(* C1: in strict mode parse rejects every source that contains a call of   *)
(* a name that is neither a built-in nor a registered extension; in loose  *)
(* mode parse never rejects for that reason and records the call under     *)
(* extensions[name] or namespaces[ns][name].                               *)
(***************************************************************************)
C1_UnknownCalls ==
  Single =>
    \A n \in MethodCalls(Tree) :
      Unrecognised(this, n.callee.property.name) =>
        /\ this.mode = "strict" => ~Accepted
        /\ this.mode = "loose" =>
             /\ ~(Refused /\ outcome.v.msg = "Unrecognized method")
             /\ Accepted => Recorded(outcome.definition, n.callee.property.name)

(***************************************************************************)
(* C6: parse rejects every source whose tree holds, at any position, a     *)
(* node of a kind outside the ten kinds Program, ExpressionStatement,      *)
(* CallExpression, MemberExpression, Identifier, Literal,                  *)
(* ObjectExpression, Property, ArrayExpression, UnaryExpression.           *)
(***************************************************************************)
TenKinds ==
  {"Program", "ExpressionStatement", "CallExpression", "MemberExpression",
   "Identifier", "Literal", "ObjectExpression", "Property", "ArrayExpression",
   "UnaryExpression"}
C6_OnlyTenKinds ==
  (Single /\ Accepted) => \A n \in Nodes(Tree) : n.type \in TenKinds

(***************************************************************************)
(* C7: every call chain that parse accepts starts from the identifier Z,   *)
(* and no accepted source calls a bare identifier.                         *)
(***************************************************************************)
C7_RootedAtZ ==
  (Single /\ Accepted) =>
    \A n \in Nodes(Tree) :
      n.type = "CallExpression" => (n.callee.type # "Identifier" /\ Root(n) = Z)

(***************************************************************************)
(* C8: the arguments of the calls of an accepted source have one of the    *)
(* forms: null, string, number or boolean literal; array or object         *)
(* literal; undefined, NaN or Infinity; minus a numeric literal; a chain   *)
(* on Z.                                                                   *)
(***************************************************************************)
ArgumentForm(a) ==
  \/ a.type = "Literal" /\ a.value.k \in {"null", "string", "number", "boolean"}
  \/ a.type \in {"ArrayExpression", "ObjectExpression"}
  \/ a.type = "Identifier" /\ a.name \in {W("undefined"), W("NaN"), W("Infinity")}
  \/ /\ a.type = "UnaryExpression"
     /\ a.operator = "-"
     /\ a.argument.type = "Literal"
     /\ a.argument.value.k = "number"
  \/ a.type \in {"CallExpression", "MemberExpression"} /\ Root(a) = Z
C8_ArgumentForms ==
  (Single /\ Accepted) =>
    \A n \in MethodCalls(FirstStatement(Tree)) :
      \A i \in 1..Len(n.arguments) : ArgumentForm(n.arguments[i])

(***************************************************************************)
(* C4: the string matcher 'P.*' permits a call at path p exactly when p is *)
(* P followed by one more segment, and a plain string matcher permits the  *)
(* identical path only: 'user.profile.*' permits user.profile.bio and      *)
(* neither user.profile.bio.extra nor a path that does not start with the  *)
(* segments user, profile.                                                 *)
(***************************************************************************)
\* parse(source) for the source that calls ui$e at the path p
CallAt(p, e) ==
  <<Src(Program(<<Stmt(NestAt(p, M(M(Z, W("string"), <<>>), <<"ui", "$", e>>, <<>>)))>>))>>
PathRefused == Refused /\ outcome.v.msg = "Extension is not allowed on path"
C4_StringMatchers ==
  \A p \in HintPaths :
    (/\ Single
     /\ MapHas(this.namespacedExtensions, W("ui"))
     /\ outcome.st # "pending"
     /\ inner[1].ok) =>
      /\ sources = CallAt(p, "hint") =>
           (~PathRefused <=> (Len(p) = 3 /\ p[1] = W("user") /\ p[2] = W("profile")))
      /\ sources = CallAt(p, "exact") => (~PathRefused <=> p = <<W("user"), W("name")>>)

(***************************************************************************)
(* C9: a called name is resolved as a registered extension first, then as  *)
(* a built-in, then by loose-mode capture, then refused as unrecognized;   *)
(* a call of a name registered as an extension that is also a built-in     *)
(* name is recorded under extensions only and sets no validation, flag or  *)
(* type.                                                                   *)
(***************************************************************************)
\* the effect of the built-in of that name is there, and is not there
BuiltinEffect(d, name) ==
  /\ name \in ValidationMethods => HasKey(Get(d, W("validations")), name)
  /\ name = W("optional") => Get(d, W("optional")) = Bool(TRUE)
  /\ name \in PrimitiveTypeMethods => Get(d, W("type")) = Str(name)
NoBuiltinEffect(d, name) ==
  /\ name \in ValidationMethods => ~HasKey(Get(d, W("validations")), name)
  /\ name = W("optional") => Get(d, W("optional")) = Undef
  /\ name \in PrimitiveTypeMethods => Get(d, W("type")) # Str(name)
\* the sources that are one chain of calls on Z
IsChainOnZ == Single /\ IsNode(Tree) /\ Len(Tree.body) = 1
              /\ Tree.body[1].expression \in OneCallChains \cup TwoCallChains
              /\ Root(Tree.body[1].expression) = Z
\* the calls of that chain (not those of its arguments)
RECURSIVE ChainCalls(_)
ChainCalls(n) ==
  IF n.type = "CallExpression" THEN {n} \cup ChainCalls(n.callee.object) ELSE {}
C9_ResolutionOrder ==
  IsChainOnZ =>
    \A n \in ChainCalls(Tree.body[1].expression) :
      LET name == n.callee.property.name
      IN /\ IsRegistered(this, name) =>
              /\ ~(Refused /\ outcome.v = ErrMethod(name))
              /\ Accepted => /\ RecordedAt(outcome.definition, name)
                             /\ NoBuiltinEffect(outcome.definition, name)
         /\ (~IsRegistered(this, name) /\ IsBuiltin(name)) =>
              /\ ~(Refused /\ outcome.v = ErrMethod(name))
              /\ Accepted => /\ BuiltinEffect(outcome.definition, name)
                             /\ ~RecordedAt(outcome.definition, name)
         /\ (Unrecognised(this, name) /\ this.mode = "loose") =>
              /\ ~(Refused /\ outcome.v = ErrMethod(name))
              /\ Accepted => RecordedAt(outcome.definition, name)
         /\ (Unrecognised(this, name) /\ this.mode = "strict") => ~Accepted
\* a call of min, registered as an extension, is accepted
C9_Witness ==
  /\ IsChainOnZ
  /\ Accepted
  /\ IsRegistered(this, W("min"))
  /\ \E n \in ChainCalls(Tree.body[1].expression) : n.callee.property.name = W("min")
  /\ HasKey(Get(outcome.definition, W("extensions")), W("min"))

(***************************************************************************)
(* Vocabulary of the properties of the merge                               *)
(***************************************************************************)
\* the merge was called (on definitions built from every source)
MergeCalled == before # <<>>

\* the definition of the field at a path of a definition, its type and its
\* validations
RECURSIVE FieldAt(_, _)
FieldAt(d, p) ==
  IF p = <<>> THEN d ELSE FieldAt(Get(Get(d, W("fields")), Head(p)), Tail(p))
TypeAt(d, p) == Get(FieldAt(d, p), W("type"))
ValidationsAt(d, p) == Get(FieldAt(d, p), W("validations"))
AllFieldPaths == FieldPaths \cup {<<W("u")>>}
ValidationNames == {W("min"), W("email")}

\* source k (counted from 1) gives the field at p a type that differs from the
\* type an earlier source gives it
TypeDiffers(k, p) ==
  \E j \in 1..(k - 1) :
    /\ Truthy(TypeAt(before[j], p))
    /\ Truthy(TypeAt(before[k], p))
    /\ TypeAt(before[j], p) # TypeAt(before[k], p)
\* sources j and k give the field at p the validation key with different values
ValueDiffers(j, k, p, key) ==
  /\ HasKey(ValidationsAt(before[j], p), key)
  /\ HasKey(ValidationsAt(before[k], p), key)
  /\ Get(ValidationsAt(before[j], p), key) # Get(ValidationsAt(before[k], p), key)
SomeTypeDiffers == \E k \in 1..Len(before) : \E p \in AllFieldPaths : TypeDiffers(k, p)
SomeValueDiffers ==
  \E k \in 1..Len(before) : \E j \in 1..(k - 1) :
    \E p \in AllFieldPaths : \E key \in ValidationNames : ValueDiffers(j, k, p, key)
\* two sources give some field a validation of the same name
SomeValidationShared ==
  \E k \in 1..Len(before) : \E j \in 1..(k - 1) :
    \E p \in AllFieldPaths : \E key \in ValidationNames :
      /\ HasKey(ValidationsAt(before[j], p), key)
      /\ HasKey(ValidationsAt(before[k], p), key)
FirstTypeDiffers ==
  CHOOSE k \in 1..Len(before) :
    /\ \E p \in AllFieldPaths : TypeDiffers(k, p)
    /\ \A j \in 1..(k - 1) : \A p \in AllFieldPaths : ~TypeDiffers(j, p)

(***************************************************************************)
(* C2: when source k (counted from 0, k >= 1) is the first whose type for  *)
(* some field differs from the type of the sources before it, parse        *)
(* rejects with a type-mismatch error whose schema index is k and whose    *)
(* field is the dotted path of that field, for every number of sources and *)
(* every depth of the field.                                               *)
(***************************************************************************)
C2_TypeMismatchIndex ==
  (MergeCalled /\ SomeTypeDiffers /\ ~SomeValidationShared) =>
    /\ Refused
    /\ outcome.v.msg = "Type mismatch"
    /\ outcome.v.index = FirstTypeDiffers - 1
    /\ \E p \in AllFieldPaths :
         TypeDiffers(FirstTypeDiffers, p) /\ outcome.v.field = Join(p, <<".">>)

(***************************************************************************)
(* C3: for sources that give the same field a validation of the same       *)
(* name, parse rejects with a validation-conflict error that names the     *)
(* path of the field and the validation exactly when the two values        *)
(* differ; when no values differ the merge succeeds and the validations of *)
(* a merged field are the union of those of the sources.                   *)
(***************************************************************************)
ConflictReported == Refused /\ outcome.v.msg = "Validation conflict"
C3_ValidationConflicts ==
  (MergeCalled /\ ~SomeTypeDiffers) =>
    /\ ConflictReported <=> SomeValueDiffers
    /\ ConflictReported =>
         \E k \in 1..Len(before) : \E j \in 1..(k - 1) :
           \E p \in AllFieldPaths : \E key \in ValidationNames :
             /\ ValueDiffers(j, k, p, key)
             /\ outcome.v.field = Join(p, <<".">>)
             /\ outcome.v.key = key
    /\ ~SomeValueDiffers =>
         /\ Accepted
         /\ \A p \in AllFieldPaths : \A key \in ValidationNames :
              /\ HasKey(ValidationsAt(outcome.definition, p), key)
                   <=> \E i \in 1..Len(before) : HasKey(ValidationsAt(before[i], p), key)
              /\ \A i \in 1..Len(before) :
                   HasKey(ValidationsAt(before[i], p), key) =>
                     Get(ValidationsAt(outcome.definition, p), key)
                       = Get(ValidationsAt(before[i], p), key)

(***************************************************************************)
(* C5: if one of the sources fails at admission, parsing, auditing or      *)
(* definition building, parse rejects and yields no schema and no          *)
(* definition; the merge and the schema generation start only after every  *)
(* source has been built.                                                  *)
(***************************************************************************)
\* source i fails on its own
SourceFails(i) ==
  \/ prom[i].st = "rejected"
  \/ ~validateInput(sources[i].text).ok
  \/ ~parseWithTimeout(sources[i], FALSE).ok
  \/ ~buildDefinition(FirstStatement(sources[i].ast), <<>>, 0, this).ok
\* no job is left to run
Quiescent == pc = "awaiting" /\ queue = <<>>
C5_AllOrNothing ==
  /\ (Accepted /\ Len(sources) > 0) => \A i \in 1..Len(sources) : prom[i].st = "fulfilled"
  /\ MergeCalled => \A i \in 1..Len(sources) : prom[i].st = "fulfilled"
  /\ (\E i \in 1..Len(sources) : prom[i].st = "rejected") => (~Accepted /\ ~MergeCalled)
  /\ (/\ Accepted \/ MergeCalled \/ Quiescent
      /\ \E i \in 1..Len(sources) : SourceFails(i)) => (Refused /\ ~MergeCalled)
\* a call of several sources of which a later one fails has been rejected
C5_Witness ==
  /\ Len(sources) >= 2
  /\ Quiescent
  /\ Refused
  /\ prom[1].st = "fulfilled"
  /\ \E i \in 2..Len(sources) : prom[i].st = "rejected"

(***************************************************************************)
(* C10: the merge changes none of its input definitions: after             *)
(* deepMergeDefinitions has returned or thrown, every input definition is  *)
(* equal to what it was before the call.                                   *)
(***************************************************************************)
C10_InputsUnchanged ==
  MergeCalled => \A i \in 1..Len(sources) : Deref(heap, prom[i].v) = before[i]
\* three definitions with fields, validations, extensions and namespaces have
\* been merged into a definition that differs from the first
C10_Witness ==
  /\ MergeCalled
  /\ Len(sources) = 3
  /\ Accepted
  /\ Canon(outcome.definition) # Canon(before[1])
  /\ \A i \in 1..3 : Deref(heap, prom[i].v) = before[i]

(***************************************************************************)
(* C11: when two sources give the same field composite definitions of the  *)
(* same kind whose children disagree (the element type of an array, the    *)
(* key or value type of a record, the item types of a tuple, the option    *)
(* types of a union, the values of an enum, the value of a literal), parse *)
(* rejects with a merge conflict instead of keeping one side.              *)
(***************************************************************************)
\* where a composite definition keeps its children
ChildSlots ==
  {W("of"), W("keySchema"), W("valueSchema"), W("items"), W("options"), W("values"),
   W("value")}
CompositeKinds ==
  {Str(W(t)) : t \in {"array", "record", "tuple", "union", "enum", "literal"}}
\* sources j and k give the field at p composites of one kind that differ in
\* a child
ChildrenDisagree(j, k, p) ==
  /\ TypeAt(before[j], p) \in CompositeKinds
  /\ TypeAt(before[j], p) = TypeAt(before[k], p)
  /\ \E slot \in ChildSlots :
       Canon(Get(FieldAt(before[j], p), slot)) # Canon(Get(FieldAt(before[k], p), slot))
SomeChildrenDisagree ==
  \E k \in 1..Len(before) : \E j \in 1..(k - 1) :
    \E p \in AllFieldPaths : ChildrenDisagree(j, k, p)
C11_StructuralContracts ==
  (MergeCalled /\ SomeChildrenDisagree) =>
    (Refused /\ outcome.v.name = "ZontaxMergeError")

(***************************************************************************)
(* C12: merge is associative on compatible inputs: for three definitions   *)
(* a, b, c that are pairwise conflict-free (equal types where both are     *)
(* typed, equal values for shared validation names), merging [a, b, c] in  *)
(* one call, merging merge([a, b]) with c, and merging a with              *)
(* merge([b, c]) all succeed and give equal definitions.                   *)
(***************************************************************************)
\* deepMergeDefinitions([deepMergeDefinitions([a, b]), c]) and
\* deepMergeDefinitions([a, deepMergeDefinitions([b, c])]) on the definitions
\* the sources were built to
MergeLeftFirst ==
  LET ab == deepMergeDefinitions(heap, <<prom[1].v, prom[2].v>>, <<>>)
      r == deepMergeDefinitions(ab.h, <<ab.val, prom[3].v>>, <<>>)
  IN IF ~ab.ok THEN ab ELSE r
MergeRightFirst ==
  LET bc == deepMergeDefinitions(heap, <<prom[2].v, prom[3].v>>, <<>>)
      r == deepMergeDefinitions(bc.h, <<prom[1].v, bc.val>>, <<>>)
  IN IF ~bc.ok THEN bc ELSE r
C12_MergeAssociative ==
  (MergeCalled /\ Len(before) = 3 /\ ~SomeTypeDiffers /\ ~SomeValueDiffers) =>
    /\ Accepted
    /\ MergeLeftFirst.ok
    /\ MergeRightFirst.ok
    /\ Canon(Deref(MergeLeftFirst.h, MergeLeftFirst.val)) = Canon(outcome.definition)
    /\ Canon(Deref(MergeRightFirst.h, MergeRightFirst.val)) = Canon(outcome.definition)

(***************************************************************************)
(* C13: merging extension metadata never fails and is last-write-wins per  *)
(* entry: the extensions of a merged node (and the map of each of its      *)
(* namespaces) contain every entry of every source, an entry present in    *)
(* several sources has the value of the source with the highest index, and *)
(* the entries of the same namespace with other names are kept.            *)
(***************************************************************************)
ExtensionsAt(d, p) == Get(FieldAt(d, p), W("extensions"))
NamespaceAt(d, p, ns) == Get(Get(FieldAt(d, p), W("namespaces")), ns)
ExtensionNames == {W("label"), W("flag"), W("tip"), W("note")}
NamespaceNames == {W("ui"), W("db")}
\* the entry of the last of the maps that has the name (Undef when none has)
LastEntry(maps, name) ==
  LET holders == {i \in 1..Len(maps) : HasKey(maps[i], name)}
  IN IF holders = {} THEN Undef
     ELSE Get(maps[CHOOSE i \in holders : \A j \in holders : j <= i], name)
C13_ExtensionsLastWins ==
  /\ (MergeCalled /\ Refused) => outcome.v.msg \in {"Type mismatch", "Validation conflict"}
  /\ (MergeCalled /\ Accepted) =>
       \A p \in AllFieldPaths : \A name \in ExtensionNames :
         /\ Get(ExtensionsAt(outcome.definition, p), name)
              = LastEntry([i \in 1..Len(before) |-> ExtensionsAt(before[i], p)], name)
         /\ \A ns \in NamespaceNames :
              Get(NamespaceAt(outcome.definition, p, ns), name)
                = LastEntry([i \in 1..Len(before) |-> NamespaceAt(before[i], p, ns)], name)
\* three sources were merged of which the first and the last give one field
\* the same global and namespaced entries with other values, and the last
\* gives the namespace a further entry
C13_Witness ==
  /\ MergeCalled
  /\ Accepted
  /\ Len(before) = 3
  /\ LET p == <<W("a")>>
     IN /\ Get(ExtensionsAt(before[1], p), W("label")) = Obj(<<[key |-> W("value"), val |-> Str(W("x"))]>>)
        /\ Get(ExtensionsAt(before[3], p), W("label")) = Obj(<<[key |-> W("value"), val |-> Str(W("y"))]>>)
        /\ Get(ExtensionsAt(outcome.definition, p), W("label"))
             = Get(ExtensionsAt(before[3], p), W("label"))
        /\ HasKey(NamespaceAt(before[1], p, W("ui")), W("tip"))
        /\ Get(NamespaceAt(before[1], p, W("ui")), W("tip"))
             # Get(NamespaceAt(before[3], p, W("ui")), W("tip"))
        /\ Get(NamespaceAt(outcome.definition, p, W("ui")), W("tip"))
             = Get(NamespaceAt(before[3], p, W("ui")), W("tip"))
        /\ ~HasKey(NamespaceAt(before[1], p, W("ui")), W("note"))
        /\ HasKey(NamespaceAt(outcome.definition, p, W("ui")), W("note"))

(***************************************************************************)
(* C14: the schema string of a node is its constructor text followed, in   *)
(* this fixed order, by its validations in the order of the definition's   *)
(* map, then describe, then default, then nullable, then optional,         *)
(* whatever order the calls had in the source; for a single chain the      *)
(* validations appear in the reverse of their source order                 *)
(* (Z.number().min(0).max(100) gives z.number().max(100).min(0)).          *)
(***************************************************************************)
\* the names of the calls of a schema string that stand outside every
\* bracket and every quoted string, in their order
RECURSIVE TopCallsFrom(_, _, _, _, _)
TopCallsFrom(s, i, depth, quoted, acc) ==
  IF i > Len(s) THEN acc
  ELSE IF quoted
       THEN IF s[i] = "\\" THEN TopCallsFrom(s, i + 2, depth, TRUE, acc)
            ELSE TopCallsFrom(s, i + 1, depth, s[i] # "\"", acc)
  ELSE IF s[i] = "\"" THEN TopCallsFrom(s, i + 1, depth, TRUE, acc)
  ELSE IF s[i] \in {"(", "[", "{"} THEN TopCallsFrom(s, i + 1, depth + 1, FALSE, acc)
  ELSE IF s[i] \in {")", "]", "}"} THEN TopCallsFrom(s, i + 1, depth - 1, FALSE, acc)
  ELSE IF s[i] = "." /\ depth = 0 /\ i + 2 <= Len(s) /\ s[i + 2] = "("
       THEN TopCallsFrom(s, i + 2, depth, FALSE, Append(acc, W(s[i + 1])))
  ELSE TopCallsFrom(s, i + 1, depth, FALSE, acc)
TopCalls(s) == TopCallsFrom(s, 1, 0, FALSE, <<>>)

\* the names called in a chain, in the order of the source text
RECURSIVE SourceCallNames(_)
SourceCallNames(n) ==
  IF n.type = "CallExpression" /\ n.callee.type = "MemberExpression"
  THEN Append(SourceCallNames(n.callee.object), n.callee.property.name)
  ELSE <<>>
Reverse(q) == [i \in 1..Len(q) |-> q[Len(q) + 1 - i]]
\* a sequence without the later occurrences of its elements
RECURSIVE Once(_)
Once(q) ==
  IF q = <<>> THEN <<>>
  ELSE LET front == Once(SubSeq(q, 1, Len(q) - 1))
       IN IF \E i \in 1..Len(front) : front[i] = q[Len(q)] THEN front
          ELSE Append(front, q[Len(q)])
\* the place of a modifier in the fixed order (0 for a name that has none)
ModifierRank(name) ==
  CASE name = W("describe") -> 1
    [] name = W("default") -> 2
    [] name = W("nullable") -> 3
    [] name = W("optional") -> 4
    [] OTHER -> 0
\* the first statement of the one source is a chain of calls on Z.number()
IsModifierChain ==
  /\ Single
  /\ Tree.type = "Program"
  /\ Len(Tree.body) = 1
  /\ Tree.body[1].expression \in ModifierChains
C14_FixedOrder ==
  (IsModifierChain /\ Accepted) =>
    LET calls == TopCalls(outcome.schema)
        validations == Get(outcome.definition, W("validations"))
        keys == IF IsObj(validations) THEN Keys(validations) ELSE <<>>
        rest == SubSeq(calls, Len(keys) + 2, Len(calls))
        written == SelectSeq(SourceCallNames(Tree.body[1].expression),
                             LAMBDA name : name \in ValidationMethods
                                           /\ ~IsRegistered(this, name))
    IN /\ calls # <<>>
       /\ Head(calls) = W("number")
       /\ Len(calls) >= Len(keys) + 1
       /\ SubSeq(calls, 2, Len(keys) + 1) = keys
       /\ \A i \in 1..Len(rest) : ModifierRank(rest[i]) > 0
       /\ \A i \in 1..Len(rest) : \A j \in 1..(i - 1) :
            ModifierRank(rest[j]) < ModifierRank(rest[i])
       /\ keys = Once(Reverse(written))
\* Z.number().optional().describe("d").max(100) has given the validation, then
\* describe, then optional
ReorderedChain ==
  /\ IsModifierChain
  /\ Accepted
  /\ SourceCallNames(Tree.body[1].expression)
       = <<W("number"), W("optional"), W("describe"), W("max")>>
  /\ outcome.schema = <<"z", ".", "number", "(", ")", ".", "max", "(", "100", ")",
                        ".", "describe", "(", "\"", "d", "\"", ")",
                        ".", "optional", "(", ")">>
\* Z.number().min(0).max(100) has given z.number().max(100).min(0)
C14_Witness ==
  /\ IsModifierChain
  /\ Accepted
  /\ SourceCallNames(Tree.body[1].expression) = <<W("number"), W("min"), W("max")>>
  /\ outcome.schema = <<"z", ".", "number", "(", ")", ".", "max", "(", "100", ")",
                        ".", "min", "(", "0", ")">>

(***************************************************************************)
(* C15: the schema string does not depend on extension metadata: two       *)
(* sources that differ only in extension calls (registered or captured in  *)
(* loose mode, global or namespaced) and their arguments produce the same  *)
(* schema string, and the schema string contains no extension call.        *)
(***************************************************************************)
\* the call of the name is taken as an extension by the parser
IsExtensionCall(parser, name) ==
  IsRegistered(parser, name) \/ (~IsBuiltin(name) /\ parser.mode = "loose")
\* the tree without its extension calls: receiver.ext(args) becomes receiver
RECURSIVE StripExtensions(_, _)
StripExtensions(n, parser) ==
  CASE n.type = "Program" ->
         [n EXCEPT !.body = [i \in 1..Len(n.body) |-> StripExtensions(n.body[i], parser)]]
    [] n.type = "ExpressionStatement" ->
         [n EXCEPT !.expression = StripExtensions(n.expression, parser)]
    [] n.type = "CallExpression" ->
         IF /\ n.callee.type = "MemberExpression"
            /\ ~n.callee.computed
            /\ n.callee.property.type = "Identifier"
            /\ IsExtensionCall(parser, n.callee.property.name)
         THEN StripExtensions(n.callee.object, parser)
         ELSE [n EXCEPT !.callee = StripExtensions(n.callee, parser),
                        !.arguments = [i \in 1..Len(n.arguments) |->
                                         StripExtensions(n.arguments[i], parser)]]
    [] n.type = "MemberExpression" ->
         [n EXCEPT !.object = StripExtensions(n.object, parser)]
    [] n.type = "ObjectExpression" ->
         [n EXCEPT !.properties =
            [i \in 1..Len(n.properties) |->
               [n.properties[i] EXCEPT !.value = StripExtensions(n.properties[i].value, parser)]]]
    [] n.type = "ArrayExpression" ->
         [n EXCEPT !.elements = [i \in 1..Len(n.elements) |->
                                   StripExtensions(n.elements[i], parser)]]
    [] OTHER -> n
\* the source has an extension call
HasExtensionCall ==
  \E n \in MethodCalls(Tree) : IsExtensionCall(this, n.callee.property.name)
\* the schema string calls the name
CallsName(schema, name) ==
  \E i \in 1..(Len(schema) - 2) :
    schema[i] = "." /\ <<schema[i + 1]>> = name /\ schema[i + 2] = "("
C15_SchemaIgnoresExtensions ==
  (Single /\ Accepted /\ IsNode(Tree) /\ HasExtensionCall) =>
    LET alone == ParseAlone(this, Src(StripExtensions(Tree, this)))
    IN /\ alone.st = "fulfilled" => outcome.schema = alone.schema
       /\ \A n \in MethodCalls(Tree) :
            IsExtensionCall(this, n.callee.property.name) =>
              ~CallsName(outcome.schema, n.callee.property.name)

(***************************************************************************)
(* C16: parse is deterministic when re-run: two calls with the same source *)
(* on the same parser instance give the same outcome (both reject with the *)
(* same error, or both return equal schema strings and equal definitions), *)
(* for every registry content, including extensions whose allowedOnPath    *)
(* holds RegExp matchers with any flags.                                   *)
(***************************************************************************)
\* the call was rejected because the parser took too long
TimedOut(o) == o.st = "rejected" /\ o.v = ZErr("Parse operation took too long")
\* the second call was made after the first had settled, and has settled
CalledAgain == Single /\ outcome.st # "pending" /\ second.pc = "done" /\ second.late
C16_RerunDeterministic ==
  (/\ CalledAgain
   /\ second.source = sources[1]
   /\ ~TimedOut(outcome)
   /\ ~TimedOut(second.outcome)) => second.outcome = outcome

(***************************************************************************)
(* C17: two parse calls started on the same parser instance and            *)
(* interleaved at their suspension points each produce the result they     *)
(* produce when run alone: no parse call writes registry state or any      *)
(* other state that another parse call reads.                              *)
(***************************************************************************)
\* the extension with its RegExp matchers as they were registered
AsRegistered(ext) ==
  IF ~Truthy(ext.allowedOnPath) THEN ext
  ELSE [ext EXCEPT !.allowedOnPath =
          Arr([i \in 1..Len(ext.allowedOnPath.e) |->
                 IF ext.allowedOnPath.e[i].k = "regexp"
                 THEN [ext.allowedOnPath.e[i] EXCEPT !.lastIndex = 0]
                 ELSE ext.allowedOnPath.e[i]])]
\* the instance as the constructor returned it
AsConstructed(parser) ==
  [mode |-> parser.mode,
   globalExtensions |->
     [n \in DOMAIN parser.globalExtensions |-> AsRegistered(parser.globalExtensions[n])],
   namespacedExtensions |->
     [ns \in DOMAIN parser.namespacedExtensions |->
        [n \in DOMAIN parser.namespacedExtensions[ns] |->
           AsRegistered(parser.namespacedExtensions[ns][n])]]]
\* the second call started while the first was pending, and both have settled
Interleaved == Single /\ outcome.st # "pending" /\ second.pc = "done" /\ ~second.late
C17_CallsIndependent ==
  (Interleaved /\ ~TimedOut(outcome) /\ ~TimedOut(second.outcome)) =>
    /\ outcome = ParseAlone(AsConstructed(this), sources[1])
    /\ second.outcome = ParseAlone(AsConstructed(this), second.source)

(***************************************************************************)
(* C18: while one call chain is walked, the type of the node is not        *)
(* changed once it has been set: neither a later type or constructor call  *)
(* of the walk nor the base case Z.typeName overwrites it.                 *)
(***************************************************************************)
TypeOf(data) == Get(data, W("type"))
\* the type of the node after every step of the walk of a chain, the base
\* case being the last step (the walk stops at a step that throws)
RECURSIVE TypeTrace(_, _, _, _, _)
TypeTrace(current, data, path, depth, parser) ==
  IF IsNode(current) /\ current.type = "CallExpression"
  THEN LET r == ChainStep(current, data, path, depth, parser)
       IN IF ~r.ok THEN <<>>
          ELSE <<TypeOf(r.val)>>
               \o TypeTrace(Field(current.callee, "object"), r.val, path, depth, r.this)
  ELSE <<TypeOf(ChainBase(current, data))>>
\* the one source is a program whose first statement is a call chain
IsCallChain ==
  /\ Single
  /\ Tree.type = "Program"
  /\ Tree.body # <<>>
  /\ Tree.body[1].type = "ExpressionStatement"
  /\ Tree.body[1].expression.type = "CallExpression"
WalkedTypes ==
  TypeTrace(Tree.body[1].expression, EmptyObj, <<>>, 1, AsConstructed(this))
C18_TypeSetOnce ==
  (IsCallChain /\ Accepted) =>
    \A i \in 1..Len(WalkedTypes) : \A j \in i..Len(WalkedTypes) :
      WalkedTypes[i] # Undef => WalkedTypes[j] = WalkedTypes[i]

(***************************************************************************)
(* C19: parse accepts a source only if its program is exactly one          *)
(* expression statement; a source with further statements after the first  *)
(* is rejected.                                                            *)
(***************************************************************************)
C19_OneStatement ==
  (Single /\ Accepted /\ IsNode(Tree)) =>
    /\ Tree.type = "Program"
    /\ Len(Tree.body) = 1
    /\ Tree.body[1].type = "ExpressionStatement"

(***************************************************************************)
(* C20: admission rejects, before any parsing, every source whose nesting  *)
(* depth of brackets, parentheses and braces outside quoted strings        *)
(* exceeds 20, whatever the first characters of the source are.            *)
(***************************************************************************)
\* the map callback has run on source i and threw at validateInput: the promise
\* of the callback is rejected with the error of the structure test and
\* parseWithTimeout was not called
RefusedAtAdmission(i) ==
  /\ prom[i] = Rejected(ZErr("Input does not match expected Zontax schema structure"))
  /\ inner[i] = Ok(NoNode)
C20_DepthRefused ==
  \A i \in 1..mapped :
    calculateDelimiterDepth(sources[i].text) > maxNestingDepth => RefusedAtAdmission(i)

(***************************************************************************)
(* C21: every rejection of parse is a ZontaxMergeError: no other kind of   *)
(* exception reaches the caller, whatever the source is.                   *)
(***************************************************************************)
C21_CategorizedErrors == Refused => outcome.v.name = "ZontaxMergeError"

(***************************************************************************)
(* C22: generateSchemaFromDefinition returns exactly one entry for each    *)
(* distinct pair (namespace, name) called on the top-level fields (the     *)
(* global calls being a scope of their own; with a namespace argument, the *)
(* pairs of that namespace): calls with different pairs never suppress one *)
(* another.                                                                *)
(***************************************************************************)
\* the names of the own properties of a value
KeySet(o) == IF IsObj(o) THEN {o.e[i].key : i \in 1..Len(o.e)} ELSE {}
\* the pairs (namespace, name) a field carries, <<>> being the global scope
PairsOf(field) ==
  {<<<<>>, name>> : name \in KeySet(Get(field, W("extensions")))}
  \cup UNION {{<<ns, name>> : name \in KeySet(Get(Get(field, W("namespaces")), ns))} :
              ns \in KeySet(Get(field, W("namespaces")))}
\* the pairs the call had to report
ObservedPairs ==
  LET fields == Get(outcome.definition, W("fields"))
      every == UNION {PairsOf(fields.e[i].val) : i \in 1..Len(fields.e)}
  IN IF Truthy(generated.namespace)
     THEN {p \in every : p[1] = generated.namespace.s}
     ELSE every
C22_OnePerPair ==
  (generated.called /\ generated.result.ok) =>
    /\ Len(generated.result.val) = Cardinality(ObservedPairs)
    /\ \A p \in ObservedPairs :
         \E i \in 1..Len(generated.result.val) : generated.result.val[i].name = p[2]

(***************************************************************************)
(* C23: the path tested against allowedOnPath is the dot-joined list of    *)
(* the keys of the enclosing object literals, also for a call inside the   *)
(* array-literal argument of tuple, union or enum or inside an array or    *)
(* record argument: an extension allowed only on 'user.name' is accepted   *)
(* at every call inside the value of the field user.name.                  *)
(***************************************************************************)
\* the one source holds its calls of ui$exact inside the value of user.name
CallsInsideUserName ==
  /\ Single
  /\ IsNode(Tree)
  /\ Len(Tree.body) = 1
  /\ Tree.body[1].expression \in InsideUserName
C23_PathInsideArguments ==
  (CallsInsideUserName /\ Refused) => outcome.v.msg # "Extension is not allowed on path"

(***************************************************************************)
(* C24: type conflicts are detected whatever the order of the sources: if  *)
(* two of the sources give a field different types, parse rejects with a   *)
(* type mismatch, also when an earlier source gives the field no type; and *)
(* when parse accepts and some source gives a field a type, the merged     *)
(* field has that type.                                                    *)
(***************************************************************************)
\* the types the sources give the field at p
TypesAt(p) ==
  {TypeAt(before[k], p) : k \in {j \in 1..Len(before) : Truthy(TypeAt(before[j], p))}}
C24_TypeConflictAnyOrder ==
  (MergeCalled /\ ~SomeValidationShared) =>
    /\ (\E p \in AllFieldPaths : Cardinality(TypesAt(p)) > 1) =>
         (Refused /\ outcome.v.msg = "Type mismatch")
    /\ Accepted =>
         \A p \in AllFieldPaths :
           TypesAt(p) # {} => TypeAt(outcome.definition, p) \in TypesAt(p)

(***************************************************************************)
(* C25: when two or more of the sources of one call fail, parse rejects    *)
(* with the error of the failing source that has the smallest index,       *)
(* whatever the stage at which each of them fails.                         *)
(***************************************************************************)
\* the sources whose map callback has rejected its promise
FailedSources == {i \in 1..Len(prom) : prom[i].st = "rejected"}
\* every map callback has run to its end
AllMapped == \A i \in 1..Len(prom) : prom[i].st # "pending"
FirstFailed == CHOOSE i \in FailedSources : \A j \in FailedSources : i <= j
C25_SmallestIndexWins ==
  (AllMapped /\ Cardinality(FailedSources) >= 2 /\ outcome.st # "pending") =>
    outcome = Rejected(prom[FirstFailed].v)

(***************************************************************************)
(* C26: the schema string is a fixed point of parse: for an accepted       *)
(* source made of built-in methods only, parse accepts the schema string   *)
(* it returned and returns the same schema string for it.                  *)
(***************************************************************************)
\* parse was called on the schema string of the first call and has settled
SchemaParsed == Accepted /\ second.late /\ second.outcome.st # "pending"
C26_SchemaFixedPoint ==
  (SchemaParsed /\ ~TimedOut(second.outcome)) =>
    /\ second.outcome.st = "fulfilled"
    /\ second.outcome.schema = outcome.schema

(***************************************************************************)
(* C27: every successful parse of one or more sources returns a definition *)
(* that is an object with a type and a schema string that is not empty; a  *)
(* source that yields no type is rejected.                                 *)
(***************************************************************************)
C27_TypedResult ==
  (Len(sources) >= 1 /\ Accepted) =>
    /\ IsObj(outcome.definition)
    /\ Truthy(Get(outcome.definition, W("type")))
    /\ outcome.schema # <<>>

(***************************************************************************)
(* C28: admission does not depend on the contents of a quoted string       *)
(* literal: if a source is admitted, every source that differs from it     *)
(* only in the characters inside a quoted string argument is admitted too. *)
(***************************************************************************)
\* the map callback threw at validateInput on source i
AdmissionRefused(i) ==
  /\ i <= mapped
  /\ prom[i].st = "rejected"
  /\ inner[i] = Ok(NoNode)
C28_StringContentsIgnored ==
  \A frame \in StringFrames : \A content \in StringContents :
    (/\ Single
     /\ mapped = 1
     /\ sources[1] = StringArgument(frame, content)
     /\ \E other \in StringContents : validateInput(StringArgument(frame, other).text).ok)
    => ~AdmissionRefused(1)

(***************************************************************************)
(* C29: each call of parseWithTimeout settles its promise exactly once,    *)
(* and on every path the timeout timer and the interval of the memory      *)
(* check are cleared when the promise settles: no timer stays active and   *)
(* no timer callback runs after the settlement.                            *)
(***************************************************************************)
C29_TimersCleared ==
  /\ \A k \in 1..Len(timers.calls) :
       /\ timers.calls[k].settles = 1
       /\ timers.calls[k].active = {}
  /\ timers.late = {}
\* parseWithTimeout has settled with a rejection of the audit, and the event
\* loop has run its timers phase since
C29_Witness ==
  /\ Single
  /\ Len(timers.calls) = 1
  /\ ~inner[1].ok
  /\ inner[1].err.name = "ZontaxMergeError"
  /\ inner[1].err.msg \notin {"Invalid syntax in input", "Parse operation took too long"}
  /\ timers.phases = MaxPhases

\* the one RegExp matcher of the registrations the constructor was called with
RegisteredMatcher == RegExpMatchers(constructed.registrations)[1]
\* a backtracking shape: every shape of the list repeats something, so a source
\* that has one holds a quantifier character
BacktrackingShape(source) ==
  MatchCount(source, {"+", "*", "?", "{"}) > 0 /\ MatchesRedosPattern(source)
ListedRefusal(source) ==
  \/ BacktrackingShape(source)
  \/ analyzeRegExpComplexity(source) > MaxRiskScore
  \/ SourceLength(source) > MaxPatternLength
  \/ calculateNestingDepth(source) > MaxPatternNesting
  \/ MatchCount(source, {"+", "*", "?", "{", "}"}) > MaxQuantifiers
AnchoredPlain(pattern) ==
  /\ pattern.anchorStart /\ pattern.anchorEnd
  /\ ~IncludesText(RegExpSource(pattern), <<".", "*">>)
  /\ ~IncludesText(RegExpSource(pattern), <<".", "+">>)

\* C30: at registration a RegExp matcher anchored at both ends without .* and
\* .+ is accepted; any other RegExp matcher is refused exactly when its source
\* has a backtracking shape of the list, or a score above 100, or more than 500
\* characters, or groups nested deeper than 10, or more than 20 quantifier
\* characters; so an unanchored matcher of literal word characters is
\* registered.
C30_RefusedOnlyWhenListed ==
  constructed.called =>
    /\ AnchoredPlain(RegisteredMatcher) => constructed.ok
    /\ ~AnchoredPlain(RegisteredMatcher) =>
         (~constructed.ok <=> ListedRefusal(RegExpSource(RegisteredMatcher)))

====
